---- MODULE Spec2Model ----
(***************************************************************************)
(* A model of the build engine of build++ (Configuration::build and        *)
(* Configuration::run), of the two dependency kinds (local-build and       *)
(* local-pair) and of the filesystem helpers of util.rs, over a small      *)
(* filesystem whose entries carry modification times.                      *)
(*                                                                         *)
(* A filesystem entry is a record: a file [kind |-> "file", m |-> t], a    *)
(* directory [kind |-> "dir", m |-> t, e |-> entries] whose entries map a   *)
(* file name to an entry, or Absent.  A file name is the sequence of its   *)
(* dot-separated parts: <<"api", "h">> is api.h.  Every operation stamps   *)
(* what it writes with the clock `now`, which has a finite granularity:    *)
(* several operations may happen within one tick.                          *)
(***************************************************************************)
EXTENDS Integers, Sequences, FiniteSets, TLC

\* ---------------------------------------------------------------- bounds
MaxTime == 1
MaxEdits == 1

\* ------------------------------------------------------------- constants
DEFAULT_PROFILE == "default"
HeaderExtensions == {"h", "cuh", "hh", "H", "hp", "hxx", "hpp", "HPP", "h++", "tcc"}
ObjExtensions == {"obj"}

Projects == {"top", "nested"}
Aliases == {"pair", "nested"}
BuildTypes == {"Binary", "Library"}
Requests == {"None"} \cup BuildTypes
ProfileNames == {DEFAULT_PROFILE, "nope"}
ExitCodes == {0, 1, 2}

\* --------------------------------------------------------------- helpers
Max(a, b) == IF a >= b THEN a ELSE b

MaxOf(S) == CHOOSE x \in S : \A y \in S : y <= x

Absent == [kind |-> "none"]

File(t) == [kind |-> "file", m |-> t]

Dir(t, entries) == [kind |-> "dir", m |-> t, e |-> entries]

NoEntries == [n \in {} |-> Absent]

is_dir(x) == x.kind = "dir"

is_file(x) == x.kind = "file"

Names(d) == IF is_dir(d) THEN DOMAIN d.e ELSE {}

Entry(d, n) == IF n \in Names(d) THEN d.e[n] ELSE Absent

FileNames(d) == {n \in Names(d) : is_file(d.e[n])}

\* util.rs split_file_name: the extension is the part after the last dot;
\* a name without a dot yields ("", ""), stem included.
split_file_name(filename) ==
    IF Len(filename) = 1
    THEN <<"", "">>
    ELSE <<SubSeq(filename, 1, Len(filename) - 1), filename[Len(filename)]>>

Extension(filename) == split_file_name(filename)[2]

\* fs::create_dir_all: an existing directory is left as it is.
create_dir_all(d, t) == IF is_dir(d) THEN d ELSE Dir(t, NoEntries)

RECURSIVE last_modified_recursive(_)
last_modified_recursive(entry) ==
    IF is_dir(entry)
    THEN MaxOf({entry.m} \cup {last_modified_recursive(entry.e[n]) : n \in DOMAIN entry.e})
    ELSE entry.m

RECURSIVE copy_dir_all_filter_extension(_, _, _, _)
copy_dir_all_filter_extension(src, dst, extension_filter, t) ==
    LET d0 == create_dir_all(dst, t)
        copied == {n \in Names(src) :
                      \/ is_dir(src.e[n])
                      \/ Extension(n) \in extension_filter}
    IN  Dir(IF copied \subseteq Names(d0) THEN d0.m ELSE t,
            [n \in Names(d0) \cup copied |->
                IF n \in copied
                THEN IF is_dir(src.e[n])
                     THEN copy_dir_all_filter_extension(src.e[n], Entry(d0, n),
                                                        extension_filter, t)
                     ELSE File(t)
                ELSE d0.e[n]])

RECURSIVE copy_dir_all(_, _, _)
copy_dir_all(src, dst, t) ==
    LET d0 == create_dir_all(dst, t)
        copied == Names(src)
    IN  Dir(IF copied \subseteq Names(d0) THEN d0.m ELSE t,
            [n \in Names(d0) \cup copied |->
                IF n \in copied
                THEN IF is_dir(src.e[n])
                     THEN copy_dir_all(src.e[n], Entry(d0, n), t)
                     ELSE File(t)
                ELSE d0.e[n]])

\* util.rs remove_dir_all: the whole tree goes.
remove_dir_all(dst) == Absent

\* util.rs remove_dir_all_filter_extension: sub-directories are removed
\* whole, files are removed when their extension passes the filter, and the
\* directory itself stays.
remove_dir_all_filter_extension(dst, extension_filter, t) ==
    IF ~is_dir(dst)
    THEN dst
    ELSE LET removed == {n \in Names(dst) :
                            \/ is_dir(dst.e[n])
                            \/ Extension(n) \in extension_filter}
         IN  Dir(IF removed = {} THEN dst.m ELSE t,
                 [n \in Names(dst) \ removed |-> dst.e[n]])

\* ------------------------------------------------------------- profiles
\* profile/msvc.rs: the default profile of the msvc backend.  A profile is
\* the record of its options; `toggle` is the backend's boolean option,
\* openmp of msvc and optimize_device of nvcc.
\* An Option that is None.
None == "None"

MsvcDefault ==
    [backend |-> "msvc", compiler_path |-> None, standard |-> None, optimize |-> None,
     toggle |-> FALSE, library_type |-> "Shared"]

\* profile/nvcc.rs: the default profile of the nvcc backend.
NvccDefault ==
    [backend |-> "nvcc", compiler_path |-> None, standard |-> None, optimize |-> None,
     toggle |-> FALSE, library_type |-> "Shared"]

src_file_suffix(profile) == IF profile.backend = "nvcc" THEN "cu" ELSE "cpp"

src_filename(build_type) == IF build_type = "Binary" THEN "main" ELSE "lib"

\* msvc.rs 232, nvcc.rs 262-269 (the linux variant).
artifact_prefix(profile, build_type) ==
    IF profile.backend = "nvcc" /\ build_type = "Library" THEN "lib" ELSE ""

\* msvc.rs 234-244, nvcc.rs 271-283 (the linux variant); the suffix without
\* its dot, "" when there is none.
artifact_suffix(profile, build_type) ==
    IF profile.backend = "nvcc"
    THEN IF build_type = "Binary" THEN ""
         ELSE IF profile.library_type = "Shared" THEN "so" ELSE "a"
    ELSE IF build_type = "Binary" THEN "exe"
         ELSE IF profile.library_type = "Shared" THEN "dll" ELSE "lib"

\* format!("{}{}", prefix, name) for the project names of the model.
Prefixed(prefix, name) ==
    IF prefix = "" THEN name
    ELSE IF name = "top" THEN "libtop" ELSE "libnested"

\* Configuration::src_file, as a name inside src/.
src_file(build_type, profile) == <<src_filename(build_type), src_file_suffix(profile)>>

\* Configuration::target_artifact_file, as a name inside target/<V>/<P>/artifact
\* (prefix, project name and suffix in one name).
target_artifact_file(p, build_type, profile) ==
    LET stem == Prefixed(artifact_prefix(profile, build_type), p)
        suffix == artifact_suffix(profile, build_type)
    IN  IF suffix = "" THEN <<stem>> ELSE <<stem, suffix>>

ARTIFACT == <<"artifact">>
INCLUDE == <<"include">>
LIB == <<"lib">>

\* ---------------------------------------------------------------- state
VARIABLES
    now,          \* the filesystem clock
    cfgfile,      \* [Projects -> entry]: <project>/build++.lsd
    src,          \* [Projects -> entry]: <project>/src
    target,       \* [Projects -> entry]: <project>/target/<V>/default
    cache,        \* [Aliases -> entry]: top/cache/<alias>[/<V>][/<P>]
    pair,         \* [include, lib]: the two directories of the local-pair dependency
    dependencies, \* the dependency table of the top configuration, in declaration order
    profiles,     \* [Projects -> [name -> profile]]: the profile table of each configuration
    stack,        \* the build invocations in progress, outermost first
    op,           \* the subcommand in progress: "idle", "build", "run", "running"
    result,       \* the result of the last finished subcommand
    hist,         \* history of the current and the previous subcommand
    input,        \* the arguments of a call of one of the pure functions
    output        \* what that call returned

vars == <<now, cfgfile, src, target, cache, pair, dependencies, profiles, stack, op, result, hist,
          input, output>>

fsvars == <<cfgfile, src, target, cache, pair>>

\* Configuration::profiles
Profiles(p) == profiles[p]

TopProfile == Profiles("top")[DEFAULT_PROFILE]

Ok == [kind |-> "Ok", code |-> 0, inner |-> ""]

Err(kind) == [kind |-> kind, code |-> 0, inner |-> ""]

ErrCode(kind, code) == [kind |-> kind, code |-> code, inner |-> ""]

\* dependency/mod.rs: From<BuildError> for CacheError, then
\* From<CacheError> for BuildError.
CacheError(e) == [kind |-> "CacheError", code |-> e.code, inner |-> e.kind]

NoResult == Err("none")

Deps(p) == IF p = "top" THEN dependencies ELSE <<>>

DepKind(alias) == IF alias = "nested" THEN "local_build" ELSE "local_pair"


\* ---------------------------------------------------------- dependencies
\* dependency/local_build.rs: the profile policy of the local-build
\* dependency; without a `profile` key it is OfName(DEFAULT_PROFILE).
NestedProfile == [tag |-> "OfName", name |-> DEFAULT_PROFILE]

current_profile(alias, selected_profile) ==
    IF DepKind(alias) = "local_pair"
    THEN ""
    ELSE IF NestedProfile.tag = "Inherit" THEN selected_profile ELSE NestedProfile.name

\* dependency/local_pair.rs needs_recaching
local_pair_needs_recaching(cache_dep_dir) ==
    last_modified_recursive(cache_dep_dir)
        < Max(last_modified_recursive(pair.include), last_modified_recursive(pair.lib))

\* A staleness check that also recaches on equal mtimes.
local_build_needs_recaching_or_equal(config, selected_profile, cache_dep_dir) ==
    LET target_dir == IF selected_profile = DEFAULT_PROFILE THEN target[config] ELSE Absent
    IN  \/ ~is_dir(target_dir)
        \/ last_modified_recursive(cache_dep_dir)
              <= MaxOf({last_modified_recursive(cfgfile[config]),
                        last_modified_recursive(src[config]),
                        last_modified_recursive(target_dir)})

\* A staleness check that leaves the nested src/ out of the maximum.
local_build_needs_recaching_no_src(config, selected_profile, cache_dep_dir) ==
    LET target_dir == IF selected_profile = DEFAULT_PROFILE THEN target[config] ELSE Absent
    IN  \/ ~is_dir(target_dir)
        \/ last_modified_recursive(cache_dep_dir)
              < MaxOf({last_modified_recursive(cfgfile[config]),
                       last_modified_recursive(target_dir)})

\* dependency/local_build.rs needs_recaching; config is the nested project,
\* whose only target directory in this model is that of DEFAULT_PROFILE.
local_build_needs_recaching(config, selected_profile, cache_dep_dir) ==
    LET target_dir == IF selected_profile = DEFAULT_PROFILE THEN target[config] ELSE Absent
    IN  \/ ~is_dir(target_dir)
        \/ last_modified_recursive(cache_dep_dir)
              < MaxOf({last_modified_recursive(cfgfile[config]),
                       last_modified_recursive(src[config]),
                       last_modified_recursive(target_dir)})

needs_recaching(alias, selected_profile, cache_dep_dir) ==
    IF DepKind(alias) = "local_pair"
    THEN local_pair_needs_recaching(cache_dep_dir)
    ELSE local_build_needs_recaching(alias, selected_profile, cache_dep_dir)

\* configuration.rs 484-492: the three create_dir_all calls of the
\* dependency loop.
make_cache_dirs(cache_dep_dir, t) ==
    LET d0 == create_dir_all(cache_dep_dir, t)
        missing == {INCLUDE, LIB} \ Names(d0)
    IN  Dir(IF missing = {} THEN d0.m ELSE t,
            [n \in Names(d0) \cup {INCLUDE, LIB} |->
                IF n \in missing THEN Dir(t, NoEntries) ELSE d0.e[n]])

\* Dependency::cache of both kinds: two copy_dir_all calls into the cache
\* include/ and lib/ directories (which exist, so the cache directory's own
\* mtime stays).
cache_copy(cache_dep_dir, include_src, lib_src, t) ==
    [cache_dep_dir EXCEPT !.e = [n \in DOMAIN cache_dep_dir.e |->
        IF n = INCLUDE THEN copy_dir_all(include_src, cache_dep_dir.e[n], t)
        ELSE IF n = LIB THEN copy_dir_all(lib_src, cache_dep_dir.e[n], t)
        ELSE cache_dep_dir.e[n]]]

\* ------------------------------------------------------------ the build
\* A detection that falls back to the other build type when the source file
\* of the requested one is missing.
ResolveBuildTypeFallback(build_type, has_main, has_lib) ==
    IF build_type = "None" /\ has_main /\ has_lib THEN "BuildTypeNeedsToBeSpecified"
    ELSE IF build_type # "Library" /\ has_main THEN "Binary"
    ELSE IF build_type # "Binary" /\ has_lib THEN "Library"
    ELSE IF has_main THEN "Binary"
    ELSE IF has_lib THEN "Library"
    ELSE "CouldNotDetectSourceFile"

\* configuration.rs 424-440
ResolveBuildType(build_type, has_main, has_lib) ==
    IF build_type # "None" /\ has_main /\ has_lib THEN build_type
    ELSE IF build_type = "Binary" /\ has_main THEN "Binary"
    ELSE IF build_type = "Library" /\ has_lib THEN "Library"
    ELSE IF build_type = "None" /\ has_main /\ has_lib THEN "BuildTypeNeedsToBeSpecified"
    ELSE IF build_type = "None" /\ has_main THEN "Binary"
    ELSE IF build_type = "None" /\ has_lib THEN "Library"
    ELSE "CouldNotDetectSourceFile"

HasSrcFile(p, build_type, profile) == is_file(Entry(src[p], src_file(build_type, profile)))

\* The locals of one invocation of Configuration::build; build_type is the
\* requested type until line 425 shadows it with the detected one.
NewFrame(p, build_type, profile_name) ==
    [proj |-> p, profile |-> profile_name, pc |-> "start",
     build_type |-> build_type, i |-> 1, any_recached |-> FALSE,
     status |-> [killed |-> FALSE, code |-> 0]]

Top == stack[Len(stack)]

Running == Len(stack) > 0

At(pc) == Running /\ Top.pc = pc

SetTop(f) == [stack EXCEPT ![Len(stack)] = f]

\* A freshness gate that compares the target with the configuration file
\* only.
FreshIgnoringSrc(f) ==
    /\ ~f.any_recached
    /\ is_dir(target[f.proj])
    /\ last_modified_recursive(target[f.proj]) >= last_modified_recursive(cfgfile[f.proj])

\* configuration.rs 502-519: the freshness gate.
Fresh(f) ==
    /\ ~f.any_recached
    /\ is_dir(target[f.proj])
    /\ last_modified_recursive(target[f.proj])
          >= Max(last_modified_recursive(cfgfile[f.proj]),
                 last_modified_recursive(src[f.proj]))

\* configuration.rs 521-533: remove_dir_all, then three create_dir_all.
prepare_target(t) ==
    Dir(t, [n \in {ARTIFACT, INCLUDE} |-> Dir(t, NoEntries)])

\* What the compiler child leaves in its working directory, the artifact
\* directory: the artifact and an object file on exit code 0, possibly an
\* object file otherwise.
ObjectFile(build_type) == <<src_filename(build_type), "obj">>

CompilerOutputs(p, build_type, profile, code) ==
    IF code = 0
    THEN {{target_artifact_file(p, build_type, profile), ObjectFile(build_type)}}
    ELSE {{}, {ObjectFile(build_type)}}

write_files(d, names, t) ==
    Dir(IF names \subseteq Names(d) THEN d.m ELSE t,
        [n \in Names(d) \cup names |-> IF n \in names THEN File(t) ELSE d.e[n]])

\* configuration.rs 594-632: copy every dependency's cache include/ and lib/
\* into the target, in declaration order.
RECURSIVE copy_cached(_, _, _, _)
copy_cached(deps, k, tgt, t) ==
    IF k > Len(deps)
    THEN tgt
    ELSE LET c == cache[deps[k]]
         IN  copy_cached(deps, k + 1,
                 [tgt EXCEPT !.e = [n \in DOMAIN tgt.e |->
                     IF n = INCLUDE THEN copy_dir_all(Entry(c, INCLUDE), tgt.e[n], t)
                     ELSE IF n = ARTIFACT THEN copy_dir_all(Entry(c, LIB), tgt.e[n], t)
                     ELSE tgt.e[n]]],
                 t)

\* configuration.rs 565-632: post-build staging.
post_build(p, tgt, t) ==
    LET staged == [tgt EXCEPT !.e = [n \in DOMAIN tgt.e |->
                      IF n = INCLUDE
                      THEN copy_dir_all_filter_extension(src[p], tgt.e[n], HeaderExtensions, t)
                      ELSE IF n = ARTIFACT
                      THEN remove_dir_all_filter_extension(tgt.e[n], ObjExtensions, t)
                      ELSE tgt.e[n]]]
    IN  copy_cached(Deps(p), 1, staged, t)

\* ------------------------------------------------------------- history
\* hist records what the properties need to know about the past:
\*   spawned, recached  the projects whose compiler was spawned and the
\*                      dependencies whose cache() was invoked by the
\*                      subcommand in progress
\*   cached             the dependencies whose cache() has completed
\*   last               the arguments of the last subcommand when it was a
\*                      successful build and nothing was edited since
\*   repeat             the subcommand in progress (or the last one) repeats
\*                      such a build
\*   touched            per project, whether a source file was touched after
\*                      a successful build and no subcommand has spawned the
\*                      project's compiler since
\*   failed             the projects whose most recent compiler run exited
\*                      with a non-zero code or was killed
\*   edits              the number of edits so far
\*   del                the deletion of target/ or cache/ after a successful
\*                      build: the arguments of that build, what the two
\*                      trees held, and whether the same build was repeated
\*                      since ("pending", "building", "built")
NoArgs == [build_type |-> "None", profile |-> ""]

\* The files and directories below x, as the set of their paths.
RECURSIVE Paths(_, _)
Paths(x, path) ==
    IF is_dir(x)
    THEN {<<path, "dir">>} \cup UNION {Paths(x.e[n], Append(path, n)) : n \in DOMAIN x.e}
    ELSE IF is_file(x) THEN {<<path, "file">>}
    ELSE {}

Shape(x) == Paths(x, <<>>)

NoDel == [state |-> "no", args |-> NoArgs, target |-> {}, cache |-> {}]

BeginOp(h, kind, build_type, profile_name) ==
    [h EXCEPT !.spawned = {}, !.recached = {},
              !.repeat = (kind = "build"
                          /\ h.last = [build_type |-> build_type, profile |-> profile_name]),
              !.last = IF kind = "build"
                       THEN [build_type |-> build_type, profile |-> profile_name]
                       ELSE NoArgs,
              !.del = IF /\ h.del.state = "pending"
                         /\ kind = "build"
                         /\ h.del.args = [build_type |-> build_type, profile |-> profile_name]
                      THEN [h.del EXCEPT !.state = "building"]
                      ELSE NoDel]

EndOp(h, res) ==
    [h EXCEPT !.spawned = {}, !.recached = {},
              !.last = IF res.kind = "Ok" THEN h.last ELSE NoArgs,
              !.touched = [p \in Projects |-> IF p \in h.spawned THEN "no" ELSE h.touched[p]],
              !.del = IF h.del.state = "building" /\ res.kind = "Ok"
                      THEN [h.del EXCEPT !.state = "built"]
                      ELSE NoDel]

\* A return after which Dependency::cache carries on although the nested
\* build failed.
ReturnSwallowing(res, h) ==
    IF Len(stack) = 1
    THEN /\ stack' = <<>>
         /\ IF op = "run" /\ res.kind = "Ok"
            THEN /\ op' = "running"
                 /\ result' = result
                 /\ hist' = h
            ELSE /\ op' = "idle"
                 /\ result' = res
                 /\ hist' = EndOp(h, res)
    ELSE /\ stack' = [SubSeq(stack, 1, Len(stack) - 1) EXCEPT ![Len(stack) - 1].pc = "copy"]
         /\ op' = op
         /\ result' = result
         /\ hist' = h

\* A build invocation returns res: to the subcommand when it is the
\* outermost one, to Dependency::cache (local_build.rs 154-159) otherwise,
\* where `?` turns an error into the caller's own return.
Return(res, h) ==
    IF Len(stack) = 1 \/ res.kind # "Ok"
    THEN LET final == IF Len(stack) = 1 THEN res ELSE CacheError(res)
         IN  /\ stack' = <<>>
             /\ IF op = "run" /\ final.kind = "Ok"
                THEN /\ op' = "running"
                     /\ result' = result
                     /\ hist' = h
                ELSE /\ op' = "idle"
                     /\ result' = final
                     /\ hist' = EndOp(h, final)
    ELSE /\ stack' = [SubSeq(stack, 1, Len(stack) - 1) EXCEPT ![Len(stack) - 1].pc = "copy"]
         /\ op' = op
         /\ result' = result
         /\ hist' = h


\* ------------------------------------------------------- initial states
\* The layouts of top/src: api.h plus main.cpp and/or lib.cpp.
SrcLayouts == {{<<"api", "h">>} \cup S : S \in SUBSET {<<"main", "cpp">>, <<"lib", "cpp">>}}

\* The dependency tables of the top configuration.
DepTables == {<<>>, <<"nested", "pair">>}

FilesAt(names, t) == Dir(t, [n \in names |-> File(t)])

\* No pure function is being called.
NoCall == [fn |-> "none"]

Init ==
    /\ now = 0
    /\ cfgfile = [p \in Projects |-> File(0)]
    /\ \E layout \in SrcLayouts :
          src = [p \in Projects |->
                    IF p = "top" THEN FilesAt(layout, 0)
                    ELSE FilesAt({<<"lib", "cpp">>, <<"dep", "h">>}, 0)]
    /\ target = [p \in Projects |-> Absent]
    /\ cache = [a \in Aliases |-> Absent]
    /\ pair = [include |-> FilesAt({<<"pair", "h">>, <<"old", "h">>}, 0),
               lib |-> FilesAt({<<"pair", "lib">>, <<"pair", "obj">>}, 0)]
    /\ dependencies \in DepTables
    /\ profiles = [p \in Projects |-> [n \in {DEFAULT_PROFILE} |-> MsvcDefault]]
    /\ stack = <<>>
    /\ op = "idle"
    /\ result = NoResult
    /\ hist = [spawned |-> {}, recached |-> {}, cached |-> {}, failed |-> {}, edits |-> 0,
               last |-> NoArgs, repeat |-> FALSE,
               touched |-> [p \in Projects |-> "no"], del |-> NoDel]
    /\ input = NoCall
    /\ output = NoCall

\* ---------------------------------------------------------- subcommands
\* subcommand/build.rs execute: Configuration::build(build_type, profile).
Build(req, profile_name) ==
    /\ op = "idle"
    /\ op' = "build"
    /\ stack' = <<NewFrame("top", req, profile_name)>>
    /\ hist' = BeginOp(hist, "build", req, profile_name)
    /\ result' = NoResult
    /\ UNCHANGED <<now, fsvars, dependencies, profiles, input, output>>

\* configuration.rs 637-648: Configuration::run builds a Binary first.
Run(profile_name) ==
    /\ op = "idle"
    /\ op' = "run"
    /\ stack' = <<NewFrame("top", "Binary", profile_name)>>
    /\ hist' = BeginOp(hist, "run", "Binary", profile_name)
    /\ result' = NoResult
    /\ UNCHANGED <<now, fsvars, dependencies, profiles, input, output>>

\* configuration.rs 661-676: the run command exits.
RunExit(code) ==
    /\ op = "running"
    /\ op' = "idle"
    /\ result' = [kind |-> "Ok", code |-> code, inner |-> ""]
    /\ hist' = EndOp(hist, Ok)
    /\ UNCHANGED <<now, fsvars, dependencies, profiles, input, output, stack>>

\* ------------------------------------------------- the steps of a build
\* A detection that makes the target directory before it gives up on the
\* build type.
DetectMakingTarget ==
    /\ At("start")
    /\ LET f == Top
       IN  IF f.profile \notin DOMAIN Profiles(f.proj)
           THEN Return(Err("InvalidProfile"), hist) /\ UNCHANGED target
           ELSE LET profile == Profiles(f.proj)[f.profile]
                    bt == ResolveBuildType(f.build_type,
                                           HasSrcFile(f.proj, "Binary", profile),
                                           HasSrcFile(f.proj, "Library", profile))
                IN  IF bt \in BuildTypes
                    THEN /\ stack' = SetTop([f EXCEPT !.pc = "deps", !.build_type = bt])
                         /\ UNCHANGED <<op, result, hist, target>>
                    ELSE /\ Return(Err(bt), hist)
                         /\ target' = [target EXCEPT ![f.proj] = create_dir_all(@, now)]
    /\ UNCHANGED <<now, cfgfile, src, cache, pair, dependencies, profiles, input, output>>

\* configuration.rs 419-440: detect the profile and the build type.
Detect ==
    /\ At("start")
    /\ LET f == Top
       IN  IF f.profile \notin DOMAIN Profiles(f.proj)
           THEN Return(Err("InvalidProfile"), hist)
           ELSE LET profile == Profiles(f.proj)[f.profile]
                    bt == ResolveBuildType(f.build_type,
                                           HasSrcFile(f.proj, "Binary", profile),
                                           HasSrcFile(f.proj, "Library", profile))
                IN  IF bt \in BuildTypes
                    THEN /\ stack' = SetTop([f EXCEPT !.pc = "deps", !.build_type = bt])
                         /\ UNCHANGED <<op, result, hist>>
                    ELSE Return(Err(bt), hist)
    /\ UNCHANGED <<now, fsvars, dependencies, profiles, input, output>>

AtDependency ==
    /\ At("deps")
    /\ Top.i <= Len(Deps(Top.proj))

CurrentDep == Deps(Top.proj)[Top.i]

\* A check that skips every dependency whose cache directory exists.
MaySkipExisting(alias, profile_name) ==
    is_dir(cache[alias])

\* configuration.rs 464-471
MaySkip(alias, profile_name) ==
    /\ is_dir(cache[alias])
    /\ ~needs_recaching(alias, current_profile(alias, profile_name), cache[alias])

SkipDependency ==
    /\ AtDependency
    /\ MaySkip(CurrentDep, Top.profile)
    /\ stack' = SetTop([Top EXCEPT !.i = @ + 1])
    /\ UNCHANGED <<now, fsvars, dependencies, profiles, input, output, op, result, hist>>

\* configuration.rs 473-499 with local_pair.rs 97-107
CachePair ==
    /\ AtDependency
    /\ DepKind(CurrentDep) = "local_pair"
    /\ ~MaySkip(CurrentDep, Top.profile)
    /\ cache' = [cache EXCEPT ![CurrentDep] =
                    cache_copy(make_cache_dirs(@, now), pair.include, pair.lib, now)]
    /\ stack' = SetTop([Top EXCEPT !.i = @ + 1, !.any_recached = TRUE])
    /\ hist' = [hist EXCEPT !.recached = @ \cup {CurrentDep}, !.cached = @ \cup {CurrentDep}]
    /\ UNCHANGED <<now, cfgfile, src, target, pair, dependencies, profiles, input, output, op, result>>

\* configuration.rs 473-494 with local_build.rs 153-159: the cache
\* directories are made and the nested project is built as a Library.
CacheBuild ==
    /\ AtDependency
    /\ DepKind(CurrentDep) = "local_build"
    /\ ~MaySkip(CurrentDep, Top.profile)
    /\ cache' = [cache EXCEPT ![CurrentDep] = make_cache_dirs(@, now)]
    /\ stack' = Append(SetTop([Top EXCEPT !.pc = "caching"]),
                       NewFrame(CurrentDep, "Library",
                                current_profile(CurrentDep, Top.profile)))
    /\ hist' = [hist EXCEPT !.recached = @ \cup {CurrentDep}]
    /\ UNCHANGED <<now, cfgfile, src, target, pair, dependencies, profiles, input, output, op, result>>

\* local_build.rs 161-171, then configuration.rs 499
CacheBuildCopy ==
    /\ At("copy")
    /\ LET nested == target[CurrentDep]
       IN  cache' = [cache EXCEPT ![CurrentDep] =
                        cache_copy(@, Entry(nested, INCLUDE), Entry(nested, ARTIFACT), now)]
    /\ stack' = SetTop([Top EXCEPT !.pc = "deps", !.i = @ + 1, !.any_recached = TRUE])
    /\ hist' = [hist EXCEPT !.cached = @ \cup {CurrentDep}]
    /\ UNCHANGED <<now, cfgfile, src, target, pair, dependencies, profiles, input, output, op, result>>

\* A gate that does not wait for the end of the dependency loop.
AtGateEarly ==
    /\ At("deps")
    /\ Top.i >= Len(Deps(Top.proj))

AtGate ==
    /\ At("deps")
    /\ Top.i > Len(Deps(Top.proj))

\* configuration.rs 502-519
ShortCircuit ==
    /\ AtGate
    /\ Fresh(Top)
    /\ Return(Ok, hist)
    /\ UNCHANGED <<now, fsvars, dependencies, profiles, input, output>>

\* configuration.rs 521-533
PrepareTarget ==
    /\ AtGate
    /\ ~Fresh(Top)
    /\ target' = [target EXCEPT ![Top.proj] = prepare_target(now)]
    /\ stack' = SetTop([Top EXCEPT !.pc = "spawn"])
    /\ UNCHANGED <<now, cfgfile, src, cache, pair, dependencies, profiles, input, output, op, result, hist>>

\* msvc.rs 346-352, nvcc.rs 314-320: compiler_arguments reaches todo!() for
\* a Library of library type Static.
compiler_arguments_panics(profile, build_type) ==
    build_type = "Library" /\ profile.library_type = "Static"

FrameProfile(f) == Profiles(f.proj)[f.profile]

\* configuration.rs 538-545: the panic of compiler_arguments unwinds through
\* every build in progress and ends the process.
ArgumentsPanic ==
    /\ At("spawn")
    /\ compiler_arguments_panics(FrameProfile(Top), Top.build_type)
    /\ stack' = <<>>
    /\ op' = "idle"
    /\ result' = Err("panic")
    /\ hist' = EndOp(hist, Err("panic"))
    /\ UNCHANGED <<now, fsvars, dependencies, profiles, input, output>>

\* configuration.rs 535-556
SpawnCompiler ==
    /\ At("spawn")
    /\ ~compiler_arguments_panics(FrameProfile(Top), Top.build_type)
    /\ stack' = SetTop([Top EXCEPT !.pc = "compiling"])
    /\ hist' = [hist EXCEPT !.spawned = @ \cup {Top.proj}]
    /\ UNCHANGED <<now, fsvars, dependencies, profiles, input, output, op, result>>

\* configuration.rs 557: wait() returns once the child has written its files
\* and exited with a code or was killed by a signal.
CompilerExit(killed, code) ==
    /\ At("compiling")
    /\ LET f == Top
           profile == Profiles(f.proj)[f.profile]
       IN  /\ \E out \in CompilerOutputs(f.proj, f.build_type, profile,
                                         IF killed THEN 1 ELSE code) :
                 target' = [target EXCEPT ![f.proj].e[ARTIFACT] = write_files(@, out, now)]
           /\ stack' = SetTop([f EXCEPT !.pc = "waited",
                                        !.status = [killed |-> killed, code |-> code]])
    /\ UNCHANGED <<now, cfgfile, src, cache, pair, dependencies, profiles, input, output, op, result, hist>>

\* An exit check that takes the missing code of a killed child for 0.
ExitResultUnwrap(status) ==
    IF ~status.killed /\ status.code # 0
    THEN ErrCode("CompilerFailedExitCode", status.code)
    ELSE Ok

\* configuration.rs 560-563: `.code().ok_or(CompilerKilled)?` and
\* `(code == 0).ok_or(CompilerFailedExitCode(code))?`.
ExitResult(status) ==
    IF status.killed THEN Err("CompilerKilled")
    ELSE IF status.code # 0 THEN ErrCode("CompilerFailedExitCode", status.code)
    ELSE Ok

CheckExit ==
    /\ At("waited")
    /\ IF ExitResult(Top.status).kind = "Ok"
       THEN /\ stack' = SetTop([Top EXCEPT !.pc = "stage"])
            /\ hist' = [hist EXCEPT !.failed = @ \ {Top.proj}]
            /\ UNCHANGED <<op, result>>
       ELSE Return(ExitResult(Top.status), [hist EXCEPT !.failed = @ \cup {Top.proj}])
    /\ UNCHANGED <<now, fsvars, dependencies, profiles, input, output>>

\* configuration.rs 565-634
PostBuild ==
    /\ At("stage")
    /\ target' = [target EXCEPT ![Top.proj] = post_build(Top.proj, @, now)]
    /\ Return(Ok, hist)
    /\ UNCHANGED <<now, cfgfile, src, cache, pair, dependencies, profiles, input, output>>

\* ---------------------------------------------------------- environment
\* The clock is observed through the mtimes only, so a tick is taken only
\* when something carries the current time.
RECURSIVE Stamps(_)
Stamps(x) ==
    IF is_dir(x) THEN {x.m} \cup UNION {Stamps(x.e[n]) : n \in DOMAIN x.e}
    ELSE IF is_file(x) THEN {x.m}
    ELSE {}

AllStamps ==
    UNION ({Stamps(cfgfile[p]) \cup Stamps(src[p]) \cup Stamps(target[p]) : p \in Projects}
           \cup {Stamps(cache[a]) : a \in Aliases}
           \cup {Stamps(pair.include), Stamps(pair.lib)})

Tick ==
    /\ now < MaxTime
    /\ now \in AllStamps
    /\ now' = now + 1
    /\ UNCHANGED <<fsvars, dependencies, profiles, input, output, stack, op, result, hist>>

\* All mtimes of the entries in S are strictly before the clock.
Before(S) == \A x \in S : is_dir(x) => last_modified_recursive(x) < now

\* What the touch of a source file of p means to the last build: nothing
\* when that build failed or, for the nested project, when the top project
\* does not depend on it; otherwise whether the touch is later than every
\* mtime the build left in the directories it compares the sources with.
Touched(p) ==
    IF result.kind # "Ok" \/ (p = "nested" /\ \A k \in DOMAIN dependencies : dependencies[k] # p)
    THEN "no"
    ELSE IF p = "top"
    THEN IF Before({target[p]}) THEN "later" ELSE "same"
    ELSE IF Before({target[p], cache[p]}) THEN "later" ELSE "same"

Edit == [hist EXCEPT !.edits = @ + 1, !.last = NoArgs, !.del = NoDel]

\* A file under <project>/src is touched between two subcommands.
TouchSrc(p, n) ==
    /\ op = "idle"
    /\ hist.edits < MaxEdits
    /\ n \in FileNames(src[p])
    /\ src' = [src EXCEPT ![p].e[n] = File(now)]
    /\ hist' = [Edit EXCEPT !.touched[p] = Touched(p)]
    /\ UNCHANGED <<now, cfgfile, target, cache, pair, dependencies, profiles, input, output, stack, op, result>>

\* A header of the local-pair dependency is deleted between two subcommands.
DeletePairFile(n) ==
    /\ op = "idle"
    /\ hist.edits < MaxEdits
    /\ n \in FileNames(pair.include)
    /\ pair' = [pair EXCEPT !.include = Dir(now, [k \in Names(@) \ {n} |-> @.e[k]])]
    /\ hist' = Edit
    /\ UNCHANGED <<now, cfgfile, src, target, cache, dependencies, profiles, input, output, stack, op, result>>

\* The user deletes top/target, top/cache or both between two subcommands.
DeleteTrees(trees) ==
    /\ op = "idle"
    /\ hist.edits < MaxEdits
    /\ "target" \in trees => is_dir(target["top"])
    /\ "cache" \in trees => \E a \in Aliases : is_dir(cache[a])
    /\ target' = IF "target" \in trees
                 THEN [target EXCEPT !["top"] = remove_dir_all(@)]
                 ELSE target
    /\ cache' = IF "cache" \in trees
                THEN [a \in Aliases |-> remove_dir_all(cache[a])]
                ELSE cache
    /\ hist' = [Edit EXCEPT !.del =
                    IF hist.last # NoArgs
                    THEN [state |-> "pending", args |-> hist.last,
                          target |-> Shape(target["top"]),
                          cache |-> UNION {Paths(cache[a], <<<<a>>>>) : a \in Aliases}]
                    ELSE NoDel]
    /\ UNCHANGED <<now, cfgfile, src, pair, dependencies, profiles, input, output, stack, op, result>>

Next ==
    \/ \E req \in Requests, profile_name \in ProfileNames : Build(req, profile_name)
    \/ \E profile_name \in ProfileNames : Run(profile_name)
    \/ \E code \in ExitCodes : RunExit(code)
    \/ Detect
    \/ SkipDependency
    \/ CachePair
    \/ CacheBuild
    \/ CacheBuildCopy
    \/ ShortCircuit
    \/ PrepareTarget
    \/ SpawnCompiler
    \/ \E code \in ExitCodes : CompilerExit(FALSE, code)
    \/ CompilerExit(TRUE, 0)
    \/ CheckExit
    \/ PostBuild
    \/ Tick
    \/ \E p \in Projects, n \in {<<"main", "cpp">>, <<"lib", "cpp">>, <<"api", "h">>, <<"dep", "h">>} :
          TouchSrc(p, n)
    \/ \E n \in {<<"pair", "h">>, <<"old", "h">>} : DeletePairFile(n)
    \/ \E trees \in {{"target"}, {"cache"}, {"target", "cache"}} : DeleteTrees(trees)

Spec == Init /\ [][Next]_vars


\* ------------------------------------------- builds with any profile
\* The profiles a configuration can declare as its default one: either
\* backend, either library type.
ProfileVariants ==
    {[d EXCEPT !.library_type = l] : d \in {MsvcDefault, NvccDefault}, l \in {"Shared", "Static"}}

\* As Init, with any default profile in each configuration and the source
\* files named for the profile's backend.
InitStatic ==
    /\ now = 0
    /\ cfgfile = [p \in Projects |-> File(0)]
    /\ profiles \in [Projects -> {[n \in {DEFAULT_PROFILE} |-> v] : v \in ProfileVariants}]
    /\ \E types \in SUBSET BuildTypes :
          src = [p \in Projects |->
                    IF p = "top"
                    THEN FilesAt({<<"api", "h">>}
                                 \cup {src_file(bt, profiles[p][DEFAULT_PROFILE]) : bt \in types}, 0)
                    ELSE FilesAt({src_file("Library", profiles[p][DEFAULT_PROFILE]),
                                  <<"dep", "h">>}, 0)]
    /\ target = [p \in Projects |-> Absent]
    /\ cache = [a \in Aliases |-> Absent]
    /\ pair = [include |-> FilesAt({<<"pair", "h">>, <<"old", "h">>}, 0),
               lib |-> FilesAt({<<"pair", "lib">>, <<"pair", "obj">>}, 0)]
    /\ dependencies \in DepTables
    /\ stack = <<>>
    /\ op = "idle"
    /\ result = NoResult
    /\ hist = [spawned |-> {}, recached |-> {}, cached |-> {}, failed |-> {}, edits |-> 0,
               last |-> NoArgs, repeat |-> FALSE,
               touched |-> [p \in Projects |-> "no"], del |-> NoDel]
    /\ input = NoCall
    /\ output = NoCall

NextStatic ==
    \/ \E req \in Requests, profile_name \in ProfileNames : Build(req, profile_name)
    \/ Detect
    \/ SkipDependency
    \/ CachePair
    \/ CacheBuild
    \/ CacheBuildCopy
    \/ ShortCircuit
    \/ PrepareTarget
    \/ ArgumentsPanic
    \/ SpawnCompiler
    \/ \E code \in ExitCodes : CompilerExit(FALSE, code)
    \/ CompilerExit(TRUE, 0)
    \/ CheckExit
    \/ PostBuild

SpecStatic == InitStatic /\ [][NextStatic]_vars


\* --------------------------------------------------- compiler arguments
\* An argument is what format! makes of a format string and the value or
\* the path it is given: "/O{}" with the level, "/OUT:{}" with a path, a
\* literal such as "/link" with neither.  A path is the sequence of its
\* components, each a file name.
Tok(format, value, path) == [format |-> format, value |-> value, path |-> path]

Flag(literal) == Tok(literal, "", <<>>)

PathArg(path) == Tok("{}", "", path)

ValueArg(value) == Tok("{}", value, <<>>)

RECURSIVE Flatten(_)
Flatten(ss) == IF ss = <<>> THEN <<>> ELSE Head(ss) \o Flatten(Tail(ss))

\* local_build.rs 106-110, local_pair.rs 77
NestedVersion == "v1"

current_version(alias) == IF DepKind(alias) = "local_pair" THEN "" ELSE NestedVersion

\* Configuration::cache_dep_dir, as a path below the project directory.
cache_dep_dir(alias, version, profile) ==
    <<<<"cache">>, <<alias>>>>
        \o (IF version = "" THEN <<>> ELSE <<<<version>>>>)
        \o (IF profile = "" THEN <<>> ELSE <<<<profile>>>>)

cache_dep_include_dir(alias, version, profile) ==
    Append(cache_dep_dir(alias, version, profile), INCLUDE)

cache_dep_lib_dir(alias, version, profile) ==
    Append(cache_dep_dir(alias, version, profile), LIB)

src_path(build_type, profile) == <<<<"src">>, src_file(build_type, profile)>>

target_artifact_path(p, build_type, profile_name, profile) ==
    <<<<"target">>, <<profile_name>>, ARTIFACT, target_artifact_file(p, build_type, profile)>>

LibraryExtensions == {"lib", "a", "exp"}

IsLibrary(filename) == Extension(filename) \in LibraryExtensions

\* fs::read_dir lists a directory in an order of the filesystem's choosing.
Listings(d) ==
    {l \in [1..Cardinality(Names(d)) -> Names(d)] : {l[k] : k \in DOMAIN l} = Names(d)}

\* An argument vector with /OUT: put before /link.
msvc_compiler_arguments_out_first(profile, deps, build_type, selected_profile, listing) ==
    LET include_dirs == [k \in DOMAIN deps |->
            cache_dep_include_dir(deps[k], current_version(deps[k]),
                                  current_profile(deps[k], selected_profile))]
        lib_dirs == [k \in DOMAIN deps |->
            cache_dep_lib_dir(deps[k], current_version(deps[k]),
                              current_profile(deps[k], selected_profile))]
        libs == Flatten([k \in DOMAIN deps |-> SelectSeq(listing[deps[k]], IsLibrary)])
    IN  (IF profile.toggle THEN <<Flag("/openmp")>> ELSE <<>>)
        \o (IF profile.optimize # None THEN <<Tok("/O{}", profile.optimize, <<>>)>> ELSE <<>>)
        \o (IF profile.standard # None THEN <<Tok("/std:{}", profile.standard, <<>>)>> ELSE <<>>)
        \o Flatten([k \in DOMAIN deps |-> <<Flag("/I"), PathArg(include_dirs[k])>>])
        \o <<PathArg(src_path(build_type, profile))>>
        \o [k \in DOMAIN libs |-> PathArg(<<libs[k]>>)]
        \o <<Tok("/OUT:{}", "", target_artifact_path("top", build_type, selected_profile, profile))>>
        \o <<Flag("/link")>>
        \o (IF build_type = "Library" THEN <<Flag("/DLL")>> ELSE <<>>)
        \o [k \in DOMAIN deps |-> Tok("/LIBPATH:{}", "", lib_dirs[k])]

\* profile/msvc.rs compiler_arguments; listing gives, per dependency, the
\* order in which read_dir returned the entries of its cache lib directory.
msvc_compiler_arguments(profile, deps, build_type, selected_profile, listing) ==
    LET include_dirs == [k \in DOMAIN deps |->
            cache_dep_include_dir(deps[k], current_version(deps[k]),
                                  current_profile(deps[k], selected_profile))]
        lib_dirs == [k \in DOMAIN deps |->
            cache_dep_lib_dir(deps[k], current_version(deps[k]),
                              current_profile(deps[k], selected_profile))]
        libs == Flatten([k \in DOMAIN deps |-> SelectSeq(listing[deps[k]], IsLibrary)])
    IN  (IF profile.toggle THEN <<Flag("/openmp")>> ELSE <<>>)
        \o (IF profile.optimize # None THEN <<Tok("/O{}", profile.optimize, <<>>)>> ELSE <<>>)
        \o (IF profile.standard # None THEN <<Tok("/std:{}", profile.standard, <<>>)>> ELSE <<>>)
        \o Flatten([k \in DOMAIN deps |-> <<Flag("/I"), PathArg(include_dirs[k])>>])
        \o <<PathArg(src_path(build_type, profile))>>
        \o [k \in DOMAIN libs |-> PathArg(<<libs[k]>>)]
        \o <<Flag("/link")>>
        \o <<Tok("/OUT:{}", "", target_artifact_path("top", build_type, selected_profile, profile))>>
        \o (IF build_type = "Library" THEN <<Flag("/DLL")>> ELSE <<>>)
        \o [k \in DOMAIN deps |-> Tok("/LIBPATH:{}", "", lib_dirs[k])]

\* The stem of a file name, as split_file_name returns it.
Stem(filename) == split_file_name(filename)[1]

\* An argument vector with --shared appended after the source file path.
nvcc_compiler_arguments_shared_last(profile, deps, build_type, selected_profile, listing) ==
    LET dep_args(k) ==
            LET version == current_version(deps[k])
                dep_profile == current_profile(deps[k], selected_profile)
                libs == SelectSeq(listing[deps[k]], IsLibrary)
            IN  <<Tok("--include-path=\"{}\"", "", cache_dep_include_dir(deps[k], version, dep_profile)),
                  Tok("--library-path=\"{}\"", "", cache_dep_lib_dir(deps[k], version, dep_profile))>>
                \o [j \in DOMAIN libs |-> Tok("--library=\"{}\"", "", <<Stem(libs[j])>>)]
    IN  (IF profile.optimize # None
         THEN <<Flag("--optimize"), ValueArg(profile.optimize)>> ELSE <<>>)
        \o (IF profile.toggle THEN <<Flag("--dopt")>> ELSE <<>>)
        \o (IF profile.standard # None
            THEN <<Flag("--std"), ValueArg(profile.standard)>> ELSE <<>>)
        \o Flatten([k \in DOMAIN deps |-> dep_args(k)])
        \o <<Flag("--output-file")>>
        \o <<PathArg(target_artifact_path("top", build_type, selected_profile, profile))>>
        \o <<PathArg(src_path(build_type, profile))>>
        \o (IF build_type = "Library" THEN <<Flag("--shared")>> ELSE <<>>)

\* profile/nvcc.rs compiler_arguments
nvcc_compiler_arguments(profile, deps, build_type, selected_profile, listing) ==
    LET dep_args(k) ==
            LET version == current_version(deps[k])
                dep_profile == current_profile(deps[k], selected_profile)
                libs == SelectSeq(listing[deps[k]], IsLibrary)
            IN  <<Tok("--include-path=\"{}\"", "", cache_dep_include_dir(deps[k], version, dep_profile)),
                  Tok("--library-path=\"{}\"", "", cache_dep_lib_dir(deps[k], version, dep_profile))>>
                \o [j \in DOMAIN libs |-> Tok("--library=\"{}\"", "", <<Stem(libs[j])>>)]
    IN  (IF profile.optimize # None
         THEN <<Flag("--optimize"), ValueArg(profile.optimize)>> ELSE <<>>)
        \o (IF profile.toggle THEN <<Flag("--dopt")>> ELSE <<>>)
        \o (IF profile.standard # None
            THEN <<Flag("--std"), ValueArg(profile.standard)>> ELSE <<>>)
        \o (IF build_type = "Library" THEN <<Flag("--shared")>> ELSE <<>>)
        \o Flatten([k \in DOMAIN deps |-> dep_args(k)])
        \o <<Flag("--output-file")>>
        \o <<PathArg(target_artifact_path("top", build_type, selected_profile, profile))>>
        \o <<PathArg(src_path(build_type, profile))>>

\* Profile::compiler_arguments of either backend: a panic for a Static
\* Library, the argument vector otherwise.
compiler_arguments(profile, deps, build_type, selected_profile, listing) ==
    IF compiler_arguments_panics(profile, build_type)
    THEN [fn |-> "panic"]
    ELSE [fn |-> "Ok",
          args |-> IF profile.backend = "msvc"
                   THEN msvc_compiler_arguments(profile, deps, build_type,
                                                selected_profile, listing)
                   ELSE nvcc_compiler_arguments(profile, deps, build_type,
                                                selected_profile, listing)]

\* The dependency tables and cache lib directories the arguments are
\* computed for.
ArgDepTables == {<<>>, <<"pair">>, <<"nested", "pair">>, <<"pair", "nested">>}

LibFiles == {<<"m", "lib">>, <<"n", "exp">>, <<"m", "obj">>}

OptionValues ==
    [standard : {None, "c++17"}, optimize : {None, "2"}, toggle : BOOLEAN,
     library_type : {"Shared", "Static"}]

\* The profiles of one backend over OptionValues.
ProfilesOf(default) ==
    {[default EXCEPT !.standard = o.standard, !.optimize = o.optimize,
                     !.toggle = o.toggle, !.library_type = o.library_type] :
        o \in OptionValues}

\* A project whose dependencies are cached, before compiler_arguments is
\* called for its default profile.
InitArguments ==
    /\ now = 0
    /\ cfgfile = [p \in Projects |-> File(0)]
    /\ src = [p \in Projects |-> FilesAt({<<"api", "h">>}, 0)]
    /\ target = [p \in Projects |-> Absent]
    /\ pair = [include |-> FilesAt({}, 0), lib |-> FilesAt({}, 0)]
    /\ dependencies \in ArgDepTables
    /\ \E files \in [Aliases -> SUBSET LibFiles] :
          cache = [a \in Aliases |->
                      IF \E k \in DOMAIN dependencies : dependencies[k] = a
                      THEN Dir(0, [n \in {INCLUDE, LIB} |->
                                      IF n = LIB THEN FilesAt(files[a], 0) ELSE FilesAt({}, 0)])
                      ELSE Absent]
    /\ \E profile \in ProfilesOf(MsvcDefault) \cup ProfilesOf(NvccDefault) :
          profiles = [p \in Projects |-> [n \in {DEFAULT_PROFILE} |-> profile]]
    /\ stack = <<>>
    /\ op = "idle"
    /\ result = NoResult
    /\ hist = [spawned |-> {}, recached |-> {}, cached |-> {}, failed |-> {}, edits |-> 0,
               last |-> NoArgs, repeat |-> FALSE,
               touched |-> [p \in Projects |-> "no"], del |-> NoDel]
    /\ \E build_type \in BuildTypes :
          input = [fn |-> "compiler_arguments", build_type |-> build_type,
                   selected_profile |-> DEFAULT_PROFILE]
    /\ output = NoCall

\* configuration.rs 538-545: profile.compiler_arguments(self, build_type,
\* profile_name).
CompilerArguments(backend) ==
    /\ input.fn = "compiler_arguments"
    /\ output = NoCall
    /\ TopProfile.backend = backend
    /\ \E listing \in [Aliases -> UNION {Listings(Entry(cache[a], LIB)) : a \in Aliases}] :
          /\ \A a \in Aliases : listing[a] \in Listings(Entry(cache[a], LIB))
          /\ output' = compiler_arguments(TopProfile, dependencies, input.build_type,
                                          input.selected_profile, listing)
    /\ UNCHANGED <<now, fsvars, dependencies, profiles, stack, op, result, hist, input>>

NextArguments ==
    \/ CompilerArguments("msvc")
    \/ CompilerArguments("nvcc")

SpecArguments == InitArguments /\ [][NextArguments]_vars


\* -------------------------------------------------------- profile options
\* lsd.rs 15-21: an LSD is a value or a level; a level keeps its entries in
\* the order of their insertion.
Value(value) == [kind |-> "value", value |-> value, entries |-> <<>>]

Level(entries) == [kind |-> "level", value |-> "", entries |-> entries]

Keys(level) == {level.entries[k][1] : k \in DOMAIN level.entries}

\* IndexMap::get
Get(level, key) ==
    level.entries[CHOOSE k \in DOMAIN level.entries : level.entries[k][1] = key][2]

Found(value) == [fn |-> "Ok", some |-> TRUE, value |-> value]

NotFound == [fn |-> "Ok", some |-> FALSE]

InvalidValueForKey(key) == [fn |-> "Err", error |-> "InvalidValueForKey", key |-> key]

\* lsd.rs 495-501 with LSD::to_value: a missing key is no value, a key that
\* holds a level is invalid.
get_value(level, key, invalid) ==
    IF key \notin Keys(level) THEN NotFound
    ELSE IF Get(level, key).kind = "value" THEN Found(Get(level, key).value)
    ELSE invalid

Parsed(value) == [fn |-> "Ok", value |-> value]

Unparsed == [fn |-> "Err"]

\* profile/msvc.rs 51-83, after to_lowercase.
msvc_standard_from_str(s) ==
    CASE s \in {"c++14", "cpp14", "c++ 14", "cpp 14"} -> Parsed("c++14")
      [] s \in {"c++17", "cpp17", "c++ 17", "cpp 17"} -> Parsed("c++17")
      [] s \in {"c++20", "cpp20", "c++ 20", "cpp 20"} -> Parsed("c++20")
      [] s \in {"c++latest", "cpplatest", "c++ latest", "cpp latest"} -> Parsed("c++latest")
      [] s \in {"c11", "c 11"} -> Parsed("c11")
      [] s \in {"c17", "c 17"} -> Parsed("c17")
      [] OTHER -> Unparsed

\* profile/msvc.rs 109-137
msvc_optimize_from_str(s) ==
    CASE s \in {"1", "o1", "minsize", "minimumsize", "minimizesize", "size",
                "o 1", "min size", "minimum size", "minimize size"} -> Parsed("1")
      [] s \in {"2", "o2", "maxspeed", "maximumspeed", "maximizespeed", "speed",
                "o 2", "max speed", "maximum speed", "maximize speed"} -> Parsed("2")
      [] OTHER -> Unparsed

\* profile/nvcc.rs 49-79
nvcc_standard_from_str(s) ==
    CASE s \in {"c++03", "cpp03", "c++ 03", "cpp 03"} -> Parsed("c++03")
      [] s \in {"c++11", "cpp11", "c++ 11", "cpp 11"} -> Parsed("c++11")
      [] s \in {"c++14", "cpp14", "c++ 14", "cpp 14"} -> Parsed("c++14")
      [] s \in {"c++17", "cpp17", "c++ 17", "cpp 17"} -> Parsed("c++17")
      [] s \in {"c++20", "cpp20", "c++ 20", "cpp 20"} -> Parsed("c++20")
      [] OTHER -> Unparsed

\* profile/nvcc.rs 120-154
nvcc_optimize_from_str(s) ==
    CASE s \in {"0", "o0", "no", "n", "off", "false", "none", "o 0"} -> Parsed("0")
      [] s \in {"1", "o1", "yes", "y", "on", "true", "o", "optimize", "o 1"} -> Parsed("1")
      [] s \in {"2", "o2", "o 2"} -> Parsed("2")
      [] s \in {"3", "o3", "o 3"} -> Parsed("3")
      [] s \in {"s", "os", "size", "o size"} -> Parsed("s")
      [] s \in {"fast", "ofast", "o fast"} -> Parsed("fast")
      [] s \in {"g", "og", "debug", "odebug", "o g", "o debug"} -> Parsed("g")
      [] s \in {"z", "oz"} -> Parsed("z")
      [] OTHER -> Unparsed

\* bool::from_str accepts the two literals only.
bool_from_str(s) ==
    CASE s = "true" -> Parsed(TRUE)
      [] s = "false" -> Parsed(FALSE)
      [] OTHER -> Unparsed

\* profile/msvc.rs 154-166, after to_lowercase.
library_type_from_str(s) ==
    CASE s \in {"static", "lib", "a"} -> Parsed("Static")
      [] s \in {"shared", "dll", "so"} -> Parsed("Shared")
      [] OTHER -> Unparsed

\* str::parse::<T> takes the from_str of the type T that the caller asks for.
from_str(type, s) ==
    CASE type = "msvc::Standard" -> msvc_standard_from_str(s)
      [] type = "msvc::Optimize" -> msvc_optimize_from_str(s)
      [] type = "nvcc::Standard" -> nvcc_standard_from_str(s)
      [] type = "nvcc::Optimize" -> nvcc_optimize_from_str(s)
      [] type = "bool" -> bool_from_str(s)
      [] type = "LibraryType" -> library_type_from_str(s)

\* lsd.rs 503-514: str::parse of the value, an unparsable value is invalid.
get_parse(level, key, invalid, type) ==
    LET value == get_value(level, key, invalid)
    IN  IF value.fn = "Err" \/ ~value.some THEN value
        ELSE IF from_str(type, value.value).fn = "Err" THEN invalid
        ELSE Found(from_str(type, value.value).value)

\* An option that keeps its value whatever the overlay has.
try_replace_never(self, opt) ==
    self

\* util.rs 212-220
try_replace(self, opt) ==
    IF opt.some THEN opt.value ELSE self

\* profile/msvc.rs 194-228: each ? returns the first error.
msvc_apply(profile, level) ==
    LET compiler_path == get_value(level, "compiler_path", InvalidValueForKey("compiler_path"))
        standard == get_parse(level, "standard", InvalidValueForKey("standard"),
                              "msvc::Standard")
        optimize == get_parse(level, "optimize", InvalidValueForKey("optimize"),
                              "msvc::Optimize")
        openmp == get_parse(level, "openmp", InvalidValueForKey("openmp"), "bool")
        library == get_parse(level, "library", InvalidValueForKey("library"),
                             "LibraryType")
    IN  IF compiler_path.fn = "Err" THEN compiler_path
        ELSE IF standard.fn = "Err" THEN standard
        ELSE IF optimize.fn = "Err" THEN optimize
        ELSE IF openmp.fn = "Err" THEN openmp
        ELSE IF library.fn = "Err" THEN library
        ELSE [fn |-> "Ok",
              profile |-> [backend |-> profile.backend,
                           compiler_path |-> try_replace(profile.compiler_path, compiler_path),
                           standard |-> try_replace(profile.standard, standard),
                           optimize |-> try_replace(profile.optimize, optimize),
                           toggle |-> try_replace(profile.toggle, openmp),
                           library_type |-> try_replace(profile.library_type, library)]]

\* profile/nvcc.rs 209-243
nvcc_apply(profile, level) ==
    LET compiler_path == get_value(level, "compiler_path", InvalidValueForKey("compiler_path"))
        standard == get_parse(level, "standard", InvalidValueForKey("standard"),
                              "nvcc::Standard")
        optimize == get_parse(level, "optimize", InvalidValueForKey("optimize"),
                              "nvcc::Optimize")
        dopt == get_parse(level, "dopt", InvalidValueForKey("dopt"), "bool")
        library == get_parse(level, "library", InvalidValueForKey("library"),
                             "LibraryType")
    IN  IF compiler_path.fn = "Err" THEN compiler_path
        ELSE IF standard.fn = "Err" THEN standard
        ELSE IF optimize.fn = "Err" THEN optimize
        ELSE IF dopt.fn = "Err" THEN dopt
        ELSE IF library.fn = "Err" THEN library
        ELSE [fn |-> "Ok",
              profile |-> [backend |-> profile.backend,
                           compiler_path |-> try_replace(profile.compiler_path, compiler_path),
                           standard |-> try_replace(profile.standard, standard),
                           optimize |-> try_replace(profile.optimize, optimize),
                           toggle |-> try_replace(profile.toggle, dopt),
                           library_type |-> try_replace(profile.library_type, library)]]

\* profile/msvc.rs 188-192, profile/nvcc.rs 203-207: the options are applied
\* to a clone, the profile itself is left as it is.
inherit_with(profile, level) ==
    IF profile.backend = "msvc" THEN msvc_apply(profile, level) ELSE nvcc_apply(profile, level)

\* profile/msvc.rs 246-251, profile/nvcc.rs 285-290
compiler_command(profile) ==
    IF profile.compiler_path # None THEN profile.compiler_path
    ELSE IF profile.backend = "msvc" THEN "cl" ELSE "nvcc"

\* The values an overlay may give each key; <<>> stands for a key the
\* overlay does not have.
OverlayChoices ==
    [compiler_path : {<<>>, <<<<"compiler_path", Value("clang")>>>>,
                      <<<<"compiler_path", Level(<<>>)>>>>},
     standard : {<<>>, <<<<"standard", Value("cpp17")>>>>, <<<<"standard", Value("c++20")>>>>,
                 <<<<"standard", Value("gnu")>>>>},
     optimize : {<<>>, <<<<"optimize", Value("o2")>>>>, <<<<"optimize", Value("size")>>>>},
     openmp : {<<>>, <<<<"openmp", Value("true")>>>>, <<<<"openmp", Value("yes")>>>>},
     dopt : {<<>>, <<<<"dopt", Value("true")>>>>},
     library : {<<>>, <<<<"library", Value("lib")>>>>, <<<<"library", Value("dll")>>>>}]

Overlays ==
    {Level(<<<<"inherit", Value(DEFAULT_PROFILE)>>>> \o c.compiler_path \o c.standard
               \o c.optimize \o c.openmp \o c.dopt \o c.library) : c \in OverlayChoices}

\* The profiles an overlay is applied to.
InheritedProfiles ==
    ProfilesOf(MsvcDefault) \cup ProfilesOf(NvccDefault)
        \cup {[MsvcDefault EXCEPT !.compiler_path = "icl"],
              [NvccDefault EXCEPT !.compiler_path = "icl"]}

\* A parsed profile, before an entry that inherits from it is parsed.
InitInherit ==
    /\ now = 0
    /\ cfgfile = [p \in Projects |-> File(0)]
    /\ src = [p \in Projects |-> FilesAt({<<"api", "h">>}, 0)]
    /\ target = [p \in Projects |-> Absent]
    /\ pair = [include |-> FilesAt({}, 0), lib |-> FilesAt({}, 0)]
    /\ dependencies = <<"pair">>
    /\ cache = [a \in Aliases |->
                   IF a = "pair"
                   THEN Dir(0, [n \in {INCLUDE, LIB} |->
                                   IF n = LIB THEN FilesAt({<<"m", "lib">>}, 0)
                                   ELSE FilesAt({}, 0)])
                   ELSE Absent]
    /\ \E profile \in InheritedProfiles :
          profiles = [p \in Projects |-> [n \in {DEFAULT_PROFILE} |-> profile]]
    /\ stack = <<>>
    /\ op = "idle"
    /\ result = NoResult
    /\ hist = [spawned |-> {}, recached |-> {}, cached |-> {}, failed |-> {}, edits |-> 0,
               last |-> NoArgs, repeat |-> FALSE,
               touched |-> [p \in Projects |-> "no"], del |-> NoDel]
    /\ \E level \in Overlays : input = [fn |-> "inherit_with", level |-> level]
    /\ output = NoCall

\* profile/mod.rs 65-68: profile.inherit_with(level)
InheritWith(backend) ==
    /\ input.fn = "inherit_with"
    /\ output = NoCall
    /\ TopProfile.backend = backend
    /\ output' = [fn |-> "inherit_with", times |-> 1, first |-> TopProfile,
                  res |-> inherit_with(TopProfile, input.level)]
    /\ UNCHANGED <<now, fsvars, dependencies, profiles, stack, op, result, hist, input>>

\* The same level applied to the profile that inherit_with returned.
InheritAgain ==
    /\ output.fn = "inherit_with"
    /\ output.times = 1
    /\ output.res.fn = "Ok"
    /\ output' = [fn |-> "inherit_with", times |-> 2, first |-> output.res.profile,
                  res |-> inherit_with(output.res.profile, input.level)]
    /\ UNCHANGED <<now, fsvars, dependencies, profiles, stack, op, result, hist, input>>

NextInherit ==
    \/ InheritWith("msvc")
    \/ InheritWith("nvcc")
    \/ InheritAgain

SpecInherit == InitInherit /\ [][NextInherit]_vars


\* --------------------------------------------------------- profile table
\* str::to_lowercase, over the spellings the tables below use.
to_lowercase(s) ==
    CASE s = "MSVC" -> "msvc"
      [] s = "Cuda" -> "cuda"
      [] OTHER -> s

ProfileError(error, value) == [fn |-> "Err", error |-> error, key |-> value]

ParsedProfile(profile) == [fn |-> "Ok", profile |-> profile]

\* profile/mod.rs 53-102
parse_one(profs, entry) ==
    IF entry.kind = "level"
    THEN LET inherit == get_value(entry, "inherit", ProfileError("InheritIsNotAValue", ""))
             is == get_value(entry, "is", ProfileError("ProfileTypeIsNotAValue", ""))
         IN  IF inherit.fn = "Err" THEN inherit
             ELSE IF inherit.some
             THEN IF inherit.value \notin DOMAIN profs
                  THEN ProfileError("InheritingFromNonExistentProfile", inherit.value)
                  ELSE inherit_with(profs[inherit.value], entry)
             ELSE IF is.fn = "Err" THEN is
             ELSE IF ~is.some THEN ProfileError("MissingProfileType", "")
             ELSE IF to_lowercase(is.value) \in {"nvcc", "cuda"}
             THEN inherit_with(NvccDefault, entry)
             ELSE IF to_lowercase(is.value) = "msvc"
             THEN inherit_with(MsvcDefault, entry)
             ELSE ProfileError("CouldNotFindMatchingCompiler", "")
    ELSE IF to_lowercase(entry.value) \in {"nvcc", "cuda"} THEN ParsedProfile(NvccDefault)
    ELSE IF to_lowercase(entry.value) = "msvc" THEN ParsedProfile(MsvcDefault)
    ELSE ProfileError("CouldNotFindMatchingCompiler", "")

\* A loop body that keeps a default profile under the key of an entry that
\* did not parse.
parse_all_step_keeping_failed(st, key, profile_lsd) ==
    LET parsed == parse_one(st.profiles, profile_lsd)
    IN  IF parsed.fn = "Ok"
        THEN [st EXCEPT !.i = @ + 1, !.profiles = @ @@ (key :> parsed.profile),
                        !.outcome = Append(@, parsed)]
        ELSE [st EXCEPT !.i = @ + 1, !.profiles = @ @@ (key :> MsvcDefault),
                        !.errors = Append(@, parsed),
                        !.outcome = Append(@, parsed)]

\* profile/mod.rs 39-44: the body of the loop over the table; outcome keeps
\* what parse_one returned for each entry.
parse_all_step(st, key, profile_lsd) ==
    LET parsed == parse_one(st.profiles, profile_lsd)
    IN  IF parsed.fn = "Ok"
        THEN [st EXCEPT !.i = @ + 1, !.profiles = @ @@ (key :> parsed.profile),
                        !.outcome = Append(@, parsed)]
        ELSE [st EXCEPT !.i = @ + 1, !.errors = Append(@, parsed),
                        !.outcome = Append(@, parsed)]

\* The names of a profile table, in the order of declaration.
TableNames == <<"a", "b", "c", "d">>

MaxTable == 3

\* The entries of a profile table.
TableEntries ==
    {Value("msvc"), Value("Cuda"), Value("gcc"),
     Level(<<<<"is", Value("MSVC")>>, <<"standard", Value("cpp17")>>>>),
     Level(<<<<"inherit", Level(<<>>)>>>>),
     Level(<<<<"inherit", Value("a")>>, <<"standard", Value("gnu")>>>>)}
        \cup {Level(<<<<"inherit", Value(x)>>, <<"library", Value("lib")>>>>) :
                 x \in {"a", "b", "c", "zz"}}

ProfileTables ==
    UNION {{Level([k \in 1..n |-> <<TableNames[k], lsds[k]>>]) : lsds \in [1..n -> TableEntries]} :
              n \in 1..MaxTable}

\* A configuration whose name, version and dependency table load, before
\* its profile table is parsed.
InitProfiles ==
    /\ now = 0
    /\ cfgfile = [p \in Projects |-> File(0)]
    /\ src = [p \in Projects |-> FilesAt({<<"api", "h">>}, 0)]
    /\ target = [p \in Projects |-> Absent]
    /\ pair = [include |-> FilesAt({}, 0), lib |-> FilesAt({}, 0)]
    /\ dependencies = <<>>
    /\ cache = [a \in Aliases |-> Absent]
    /\ profiles = [p \in Projects |-> [n \in {DEFAULT_PROFILE} |-> MsvcDefault]]
    /\ stack = <<>>
    /\ op = "idle"
    /\ result = NoResult
    /\ hist = [spawned |-> {}, recached |-> {}, cached |-> {}, failed |-> {}, edits |-> 0,
               last |-> NoArgs, repeat |-> FALSE,
               touched |-> [p \in Projects |-> "no"], del |-> NoDel]
    /\ \E level \in ProfileTables : input = [fn |-> "parse_all", level |-> level]
    /\ output = NoCall

\* profile/mod.rs 35-37
ParseAll ==
    /\ input.fn = "parse_all"
    /\ output = NoCall
    /\ output' = [fn |-> "parse_all", i |-> 1, profiles |-> <<>>, errors |-> <<>>,
                  outcome |-> <<>>, res |-> "none"]
    /\ UNCHANGED <<now, fsvars, dependencies, profiles, stack, op, result, hist, input>>

\* profile/mod.rs 39-44
ParseOne ==
    /\ output.fn = "parse_all"
    /\ output.i <= Len(input.level.entries)
    /\ output' = parse_all_step(output, input.level.entries[output.i][1],
                                input.level.entries[output.i][2])
    /\ UNCHANGED <<now, fsvars, dependencies, profiles, stack, op, result, hist, input>>

\* profile/mod.rs 46-50 and configuration.rs 223-229: map_err(ProfilesErrors)
ParseAllReturn ==
    /\ output.fn = "parse_all"
    /\ output.i = Len(input.level.entries) + 1
    /\ output.res = "none"
    /\ output' = [output EXCEPT !.res = IF output.errors = <<>> THEN "Ok"
                                        ELSE "ProfilesErrors"]
    /\ UNCHANGED <<now, fsvars, dependencies, profiles, stack, op, result, hist, input>>

NextProfiles ==
    \/ ParseAll
    \/ ParseOne
    \/ ParseAllReturn

SpecProfiles == InitProfiles /\ [][NextProfiles]_vars


\* ------------------------------------------------------------ lsd parser
\* A level as it is written: a sequence of lines <<key, value>>, where the
\* key is given by its parts between the dots (what key.split('.') returns)
\* and the value is a Value or a written Level again.
ParsedLevel(level) == [fn |-> "Ok", level |-> level]

LSDParseError(error, key) == [fn |-> "Err", error |-> error, key |-> key]

IndexOf(level, key) ==
    CHOOSE k \in DOMAIN level.entries : level.entries[k][1] = key

\* IndexMap::insert: a key that exists keeps its place and takes the value.
Insert(level, key, lsd) ==
    IF key \in Keys(level)
    THEN Level([level.entries EXCEPT ![IndexOf(level, key)] = <<key, lsd>>])
    ELSE Level(Append(level.entries, <<key, lsd>>))

\* IndexMap::entry(key).or_insert_with(|| LSD::Level(Level::default()))
OrInsertLevel(level, key) ==
    IF key \in Keys(level) THEN level ELSE Insert(level, key, Level(<<>>))

\* lsd.rs 122-145: the loop of as_level from part i on. insert_into is <<>>
\* while it refers to the result itself, and <<key>> once it refers to
\* the level that result.entry(key) gave.
RECURSIVE as_level_from(_, _, _, _, _)
as_level_from(res, insert_into, key_parts, i, value) ==
    IF i > Len(key_parts) THEN res
    ELSE IF i = Len(key_parts)
    THEN IF insert_into = <<>>
         THEN Insert(res, key_parts[i], value)
         ELSE Insert(res, insert_into[1],
                     Insert(Get(res, insert_into[1]), key_parts[i], value))
    ELSE as_level_from(OrInsertLevel(res, key_parts[i]), <<key_parts[i]>>,
                       key_parts, i + 1, value)

\* lsd.rs 122-145
as_level(key_parts, value) ==
    as_level_from(Level(<<>>), <<>>, key_parts, 1, value)

\* lsd.rs 102-120: the loop of merge_level from entry i of level on.
RECURSIVE merge_level_from(_, _, _)
merge_level_from(insert_into, level, i) ==
    IF i > Len(level.entries) THEN ParsedLevel(insert_into)
    ELSE LET key == level.entries[i][1]
             value == level.entries[i][2]
         IN  IF value.kind = "value"
             THEN IF key \in Keys(insert_into)
                  THEN LSDParseError("KeyCollisionValueAlreadyExists", key)
                  ELSE merge_level_from(Insert(insert_into, key, value), level, i + 1)
             ELSE LET into == OrInsertLevel(insert_into, key)
                  IN  IF Get(into, key).kind = "value"
                      THEN LSDParseError("KeyCollisionValueWhenShouldBeLevel", "")
                      ELSE LET merged == merge_level_from(Get(into, key), value, 1)
                           IN  IF merged.fn = "Err" THEN merged
                               ELSE merge_level_from(Insert(into, key, merged.level),
                                                     level, i + 1)

\* lsd.rs 102-120
merge_level(insert_into, level) == merge_level_from(insert_into, level, 1)

\* lsd.rs 147-202: the loop of parse_level_inner from line i on, with
\* parse_value (lsd.rs 284-367) for the value of the line.
RECURSIVE parse_level_inner_from(_, _, _)
parse_level_inner_from(results, lines, i) ==
    IF i > Len(lines) THEN ParsedLevel(results)
    ELSE LET key == lines[i][1]
             written == lines[i][2]
             value == IF written.kind = "value" THEN ParsedLevel(written)
                      ELSE parse_level_inner_from(Level(<<>>), written.entries, 1)
         IN  IF value.fn = "Err" THEN value
             ELSE LET merged == merge_level(results, as_level(key, value.level))
                  IN  IF merged.fn = "Err" THEN merged
                      ELSE parse_level_inner_from(merged.level, lines, i + 1)

\* lsd.rs 58-67: LSD::parse
parse(lines) == parse_level_inner_from(Level(<<>>), lines, 1)

\* lsd.rs 482-493
RECURSIVE get_inner(_, _)
get_inner(lsd, parts) ==
    IF parts = <<>> THEN Found(lsd)
    ELSE IF lsd.kind = "level" /\ Head(parts) \in Keys(lsd)
    THEN get_inner(Get(lsd, Head(parts)), Tail(parts))
    ELSE NotFound

MaxParts == 3

MaxLines == 2

KeyParts == {"a", "b"}

WrittenKeys == UNION {[1..n -> KeyParts] : n \in 1..MaxParts}

WrittenValues ==
    {Value("v"), Level(<<>>), Level(<<<<<<"b">>, Value("w")>>>>)}

WrittenLines == UNION {[1..n -> WrittenKeys \X WrittenValues] : n \in 1..MaxLines}

\* A file before it is parsed.
InitLSD ==
    /\ now = 0
    /\ cfgfile = [p \in Projects |-> File(0)]
    /\ src = [p \in Projects |-> FilesAt({<<"api", "h">>}, 0)]
    /\ target = [p \in Projects |-> Absent]
    /\ pair = [include |-> FilesAt({}, 0), lib |-> FilesAt({}, 0)]
    /\ dependencies = <<>>
    /\ cache = [a \in Aliases |-> Absent]
    /\ profiles = [p \in Projects |-> [n \in {DEFAULT_PROFILE} |-> MsvcDefault]]
    /\ stack = <<>>
    /\ op = "idle"
    /\ result = NoResult
    /\ hist = [spawned |-> {}, recached |-> {}, cached |-> {}, failed |-> {}, edits |-> 0,
               last |-> NoArgs, repeat |-> FALSE,
               touched |-> [p \in Projects |-> "no"], del |-> NoDel]
    /\ \E lines \in WrittenLines : input = [fn |-> "parse", lines |-> lines]
    /\ output = NoCall

\* lsd.rs 58-67
Parse ==
    /\ input.fn = "parse"
    /\ output = NoCall
    /\ output' = [fn |-> "parse", res |-> parse(input.lines)]
    /\ UNCHANGED <<now, fsvars, dependencies, profiles, stack, op, result, hist, input>>

NextLSD == Parse

SpecLSD == InitLSD /\ [][NextLSD]_vars


\* --------------------------------------------------- configuration load
\* str::split_whitespace, over the values the files below use.
split_whitespace(s) ==
    CASE s = "local pair" -> <<"local", "pair">>
      [] s = "local build" -> <<"local", "build">>
      [] s = "local include" -> <<"local", "include">>
      [] s = "tool {} -v" -> <<"tool", "{}", "-v">>
      [] s = "-a -b" -> <<"-a", "-b">>
      [] s = "" -> <<>>
      [] OTHER -> <<s>>

\* util.rs 258-271, with N = 2
split_into_words(s) ==
    IF Len(split_whitespace(s)) = 2
    THEN [fn |-> "Ok", some |-> TRUE, value |-> split_whitespace(s)]
    ELSE NotFound

DependencyError(error) == [fn |-> "Err", error |-> error, key |-> ""]

ParsedDependency(dep) == [fn |-> "Ok", dep |-> dep]

\* The directories that exist beside the project: the pair's include and
\* lib directories and the nested project.
IsDir(path) ==
    CASE path = "../pair/include" -> is_dir(pair.include)
      [] path = "../pair/lib" -> is_dir(pair.lib)
      [] path = "../nested" -> is_file(cfgfile["nested"])
      [] OTHER -> FALSE

\* dependency/local_pair.rs 39-75
local_pair_try_parse(level) ==
    LET include_path == get_value(level, "include", DependencyError("IncludePathIsNotAValue"))
        library_path == get_value(level, "library", DependencyError("LibraryPathIsNotAValue"))
    IN  IF include_path.fn = "Err" THEN include_path
        ELSE IF ~include_path.some THEN DependencyError("MissingIncludePath")
        ELSE IF library_path.fn = "Err" THEN library_path
        ELSE IF ~library_path.some THEN DependencyError("MissingLibraryPath")
        ELSE IF ~IsDir(include_path.value) THEN DependencyError("IncludeDirIsNotADir")
        ELSE IF ~IsDir(library_path.value) THEN DependencyError("LibDirIsNotADir")
        ELSE ParsedDependency([kind |-> "local_pair", include_dir |-> include_path.value,
                               lib_dir |-> library_path.value, profile |-> ""])

\* dependency/local_build.rs 32-46
profile_from_str(s) ==
    IF to_lowercase(s) = "inherit" THEN "Inherit" ELSE to_lowercase(s)

\* dependency/local_build.rs 67-104: Configuration::load of the project at
\* path succeeds for the nested project.
local_build_try_parse(level) ==
    LET project_dir == get_value(level, "path", DependencyError("ProjectPathIsNotAValue"))
        profile == get_value(level, "profile", DependencyError("ProfileIsNotAValue"))
    IN  IF project_dir.fn = "Err" THEN project_dir
        ELSE IF ~project_dir.some THEN DependencyError("MissingProjectPath")
        ELSE IF ~IsDir(project_dir.value) THEN DependencyError("ConfigurationLoadError")
        ELSE IF profile.fn = "Err" THEN profile
        ELSE ParsedDependency([kind |-> "local_build", include_dir |-> project_dir.value,
                               lib_dir |-> project_dir.value,
                               profile |-> IF profile.some THEN profile_from_str(profile.value)
                                           ELSE DEFAULT_PROFILE])

\* dependency/mod.rs 61-93
dependency_parse_one(value) ==
    IF value.kind = "level"
    THEN LET is == get_value(value, "is", DependencyError("DependencyTypeIsNotAValue"))
         IN  IF is.fn = "Err" THEN is
             ELSE IF ~is.some
             THEN DependencyError("DependenciesWithoutTypeAreNotSupportedYet")
             ELSE IF to_lowercase(is.value) = "local" THEN local_build_try_parse(value)
             ELSE IF ~split_into_words(to_lowercase(is.value)).some
             THEN DependencyError("CouldNotFindMatchingDependencyType")
             ELSE LET words == split_into_words(to_lowercase(is.value)).value
                  IN  IF words \in {<<"local", "build">>, <<"local", "build++">>,
                                    <<"local", "buildpp">>}
                      THEN local_build_try_parse(value)
                      ELSE IF words \in {<<"local", "pair">>, <<"local", "include">>,
                                         <<"local", "library">>}
                      THEN local_pair_try_parse(value)
                      ELSE DependencyError("CouldNotFindMatchingDependencyType")
    ELSE DependencyError("DependenciesAsVersionsAreNotSupportedYet")

\* dependency/mod.rs 44-59: the loop of parse_all from entry i on.
RECURSIVE dependency_parse_all_from(_, _, _, _)
dependency_parse_all_from(deps, dependencies_errors, level, i) ==
    IF i > Len(level.entries)
    THEN IF dependencies_errors = <<>>
         THEN [fn |-> "Ok", dependencies |-> deps]
         ELSE [fn |-> "Err", error |-> "DependenciesErrors", errors |-> dependencies_errors]
    ELSE LET parsed == dependency_parse_one(level.entries[i][2])
         IN  IF parsed.fn = "Ok"
             THEN dependency_parse_all_from(Append(deps, <<level.entries[i][1], parsed.dep>>),
                                            dependencies_errors, level, i + 1)
             ELSE dependency_parse_all_from(deps, Append(dependencies_errors, parsed),
                                            level, i + 1)

\* dependency/mod.rs 44-59
dependency_parse_all(level) == dependency_parse_all_from(<<>>, <<>>, level, 1)

LoadError(error) == [fn |-> "Err", error |-> error, errors |-> <<>>]

\* lsd.rs 524-530 with LSD::to_level
get_level(level, key, invalid) ==
    IF key \notin Keys(level) THEN NotFound
    ELSE IF Get(level, key).kind = "level" THEN Found(Get(level, key))
    ELSE invalid

\* configuration.rs 194-236: the fields of the Configuration, each ? returns
\* the first error; the file has no profile table and no run entry.
load_fields(lsd) ==
    LET name == get_value(lsd, "name", LoadError("ProjectNameIsNotAValue"))
        version == get_value(lsd, "version", LoadError("VersionIsNotAValue"))
        dependency == get_level(lsd, "dependency", LoadError("DependenciesIsNotALevel"))
    IN  IF name.fn = "Err" THEN name
        ELSE IF ~name.some THEN LoadError("MissingProjectName")
        ELSE IF version.fn = "Err" THEN version
        ELSE IF ~version.some THEN LoadError("MissingVersion")
        ELSE IF dependency.fn = "Err" THEN dependency
        ELSE IF ~dependency.some THEN [fn |-> "Ok", dependencies |-> <<>>]
        ELSE dependency_parse_all(dependency.value)

\* configuration.rs 183-236
load(parsed) ==
    IF parsed.fn = "Err" THEN LoadError("LSDParseError") ELSE load_fields(parsed.level)

MaxDeclarations == 2

\* What a file gives an alias of its dependency table.
Declarations ==
    {Level(<<<<<<"is">>, Value("local pair")>>, <<<<"include">>, Value("../pair/include")>>,
             <<<<"library">>, Value("../pair/lib")>>>>),
     Level(<<<<<<"is">>, Value("local pair")>>, <<<<"include">>, Value("../pair/include")>>>>),
     Level(<<<<<<"library">>, Value("../pair/lib")>>>>),
     Level(<<<<<<"is">>, Value("local")>>, <<<<"path">>, Value("../nested")>>>>),
     Level(<<<<<<"profile">>, Value("fast")>>>>),
     Value("1.0")}

DeclarationLists ==
    UNION {[1..n -> Aliases \X Declarations] : n \in 1..MaxDeclarations}

\* The file build++.lsd with the declarations in one `dependency { }` table,
\* or each on a line of its own with the key `dependency.<alias>`.
WrittenConfiguration(form, decls) ==
    <<<<<<"name">>, Value("top")>>, <<<<"version">>, Value("1.0")>>>>
        \o IF form = "table"
           THEN <<<<<<"dependency">>,
                    Level([k \in DOMAIN decls |-> <<<<decls[k][1]>>, decls[k][2]>>])>>>>
           ELSE [k \in DOMAIN decls |-> <<<<"dependency", decls[k][1]>>, decls[k][2]>>]

\* A project directory before its configuration is loaded.
InitLoad ==
    /\ now = 0
    /\ cfgfile = [p \in Projects |-> File(0)]
    /\ src = [p \in Projects |-> FilesAt({<<"api", "h">>}, 0)]
    /\ target = [p \in Projects |-> Absent]
    /\ pair = [include |-> FilesAt({}, 0), lib |-> FilesAt({}, 0)]
    /\ dependencies = <<>>
    /\ cache = [a \in Aliases |-> Absent]
    /\ profiles = [p \in Projects |-> [n \in {DEFAULT_PROFILE} |-> MsvcDefault]]
    /\ stack = <<>>
    /\ op = "idle"
    /\ result = NoResult
    /\ hist = [spawned |-> {}, recached |-> {}, cached |-> {}, failed |-> {}, edits |-> 0,
               last |-> NoArgs, repeat |-> FALSE,
               touched |-> [p \in Projects |-> "no"], del |-> NoDel]
    /\ \E form \in {"table", "dotted"}, decls \in DeclarationLists :
          input = [fn |-> "load", decls |-> decls,
                   lines |-> WrittenConfiguration(form, decls)]
    /\ output = NoCall

\* configuration.rs 190-193: LSD::parse(file)
LoadParse ==
    /\ input.fn = "load"
    /\ output = NoCall
    /\ output' = [fn |-> "load", step |-> "parsed", res |-> parse(input.lines)]
    /\ UNCHANGED <<now, fsvars, dependencies, profiles, stack, op, result, hist, input>>

\* configuration.rs 193-236
LoadReturn ==
    /\ output.fn = "load"
    /\ output.step = "parsed"
    /\ output' = [fn |-> "load", step |-> "done", res |-> load(output.res)]
    /\ UNCHANGED <<now, fsvars, dependencies, profiles, stack, op, result, hist, input>>

NextLoad ==
    \/ LoadParse
    \/ LoadReturn

SpecLoad == InitLoad /\ [][NextLoad]_vars


\* ------------------------------------------------------------ run entry
\* usize::from_str, over the keys the levels below have.
IsUsize(key) == key \in {"0", "1", "2", "3"}

\* lsd.rs 564-567
is_list(level) == \A key \in Keys(level) : IsUsize(key)

\* IndexMap::values
Values(level) == [k \in DOMAIN level.entries |-> level.entries[k][2]]

RunLoadError(error) == [fn |-> "Err", error |-> error]

\* configuration.rs 59-69, 115-125: an empty level stands for "{}".
run_piece(arg) ==
    IF arg.kind = "level" /\ arg.entries = <<>> THEN Found("{}")
    ELSE IF arg.kind = "value" THEN Found(arg.value)
    ELSE RunLoadError("RunPieceIsNotAValue")

\* collect::<Result<Vec<_>, _>>() of the pieces from piece i on.
RECURSIVE run_pieces_from(_, _, _)
run_pieces_from(collected, list, i) ==
    IF i > Len(list) THEN [fn |-> "Ok", values |-> collected]
    ELSE IF run_piece(list[i]).fn = "Err" THEN run_piece(list[i])
    ELSE run_pieces_from(Append(collected, run_piece(list[i]).value), list, i + 1)

run_pieces(list) == run_pieces_from(<<>>, list, 1)

ParsedRun(command, arguments) ==
    [fn |-> "Ok", some |-> TRUE, command |-> command, arguments |-> arguments]

\* configuration.rs 37-134
run_parse(lsd) ==
    IF lsd.kind = "value"
    THEN LET value == split_whitespace(lsd.value)
         IN  ParsedRun(IF value = <<>> THEN "{}" ELSE Head(value),
                       IF value = <<>> THEN <<>> ELSE Tail(value))
    ELSE IF is_list(lsd)
    THEN LET list == run_pieces(Values(lsd))
         IN  IF list.fn = "Err" THEN list
             ELSE ParsedRun(IF list.values = <<>> THEN "{}" ELSE Head(list.values),
                            IF list.values = <<>> THEN <<>> ELSE Tail(list.values))
    ELSE LET command == get_inner(lsd, <<"command">>)
             arguments == get_inner(lsd, <<"arguments">>)
             pieces == IF ~arguments.some THEN [fn |-> "Ok", values |-> <<>>]
                       ELSE IF arguments.value.kind = "value"
                       THEN [fn |-> "Ok", values |-> split_whitespace(arguments.value.value)]
                       ELSE run_pieces(Values(arguments.value))
         IN  IF command.some /\ command.value.kind = "level" /\ command.value.entries # <<>>
             THEN RunLoadError("RunCommandIsNotAValue")
             ELSE IF ~command.some THEN RunLoadError("MissingCommandInRun")
             ELSE IF pieces.fn = "Err" THEN pieces
             ELSE ParsedRun(run_piece(command.value).value, pieces.values)

\* configuration.rs 231-235: the run entry of the configuration, if any.
load_run(lsd) ==
    IF ~get_inner(lsd, <<"run">>).some THEN NotFound
    ELSE run_parse(get_inner(lsd, <<"run">>).value)

\* str::contains("{}"), over the words the run entries below use.
HasPlaceholder(s) == s \in {"{}", "--bin={}", "{}.bak"}

\* str::replace("{}", path): the word as a format whose {} takes the path.
replace(s, path) == IF HasPlaceholder(s) THEN Tok(s, "", path) ELSE Flag(s)

\* configuration.rs 264-277
run_command(run, profile_name, profile) ==
    replace(IF run.some THEN run.command ELSE "{}",
            target_artifact_path("top", "Binary", profile_name, profile))

\* Arguments that are passed as they are written.
run_arguments_as_written(run, profile_name, profile) ==
    IF run.some THEN [k \in DOMAIN run.arguments |-> Flag(run.arguments[k])] ELSE <<>>

\* configuration.rs 279-297
run_arguments(run, profile_name, profile) ==
    IF run.some
    THEN [k \in DOMAIN run.arguments |->
             replace(run.arguments[k],
                     target_artifact_path("top", "Binary", profile_name, profile))]
    ELSE <<>>

\* The items of a run list and the entries of a run level.
RunItems ==
    {Value("tool"), Value("--bin={}"), Level(<<>>), Level(<<<<"x", Value("y")>>>>)}

MaxItems == 2

\* lsd.rs 205-237: parse_list gives item k the key of its position.
ListLevel(items) ==
    Level([k \in DOMAIN items |-> <<CASE k = 1 -> "0" [] k = 2 -> "1" [] k = 3 -> "2"
                                      [] OTHER -> "3", items[k]>>])

RunLists == UNION {{ListLevel(items) : items \in [1..n -> RunItems]} : n \in 0..MaxItems}

RunCommands == {<<>>} \cup {<<<<"command", c>>>> : c \in RunItems}

RunArguments ==
    {<<>>} \cup {<<<<"arguments", a>>>> :
                    a \in {Value("-a -b"), Value("{}.bak"),
                           ListLevel(<<Value("-v"), Level(<<>>)>>),
                           ListLevel(<<Level(<<<<"x", Value("y")>>>>)>>)}}

\* The run entry as it is written: none, a value, a [ ] list or a { } level.
WrittenRuns ==
    {[written |-> "none", entry |-> <<>>]}
        \cup {[written |-> "value", entry |-> <<<<"run", Value(s)>>>>] :
                 s \in {"{}", "tool", "tool {} -v"}}
        \cup {[written |-> "list", entry |-> <<<<"run", l>>>>] : l \in RunLists}
        \cup {[written |-> "level", entry |-> <<<<"run", Level(c \o a)>>>>] :
                 c \in RunCommands, a \in RunArguments}

AdditionalArgs == {<<>>, <<"x">>, <<"{}", "x">>}

\* A project whose configuration has its name and version, before the run
\* entry is read.
InitRun ==
    /\ now = 0
    /\ cfgfile = [p \in Projects |-> File(0)]
    /\ src = [p \in Projects |-> FilesAt({<<"main", "cpp">>}, 0)]
    /\ target = [p \in Projects |-> Absent]
    /\ pair = [include |-> FilesAt({}, 0), lib |-> FilesAt({}, 0)]
    /\ dependencies = <<>>
    /\ cache = [a \in Aliases |-> Absent]
    /\ \E profile \in {MsvcDefault, NvccDefault} :
          profiles = [p \in Projects |-> [n \in {DEFAULT_PROFILE} |-> profile]]
    /\ stack = <<>>
    /\ op = "idle"
    /\ result = NoResult
    /\ hist = [spawned |-> {}, recached |-> {}, cached |-> {}, failed |-> {}, edits |-> 0,
               last |-> NoArgs, repeat |-> FALSE,
               touched |-> [p \in Projects |-> "no"], del |-> NoDel]
    /\ \E run \in WrittenRuns, additional_args \in AdditionalArgs :
          input = [fn |-> "run", written |-> run.written,
                   lsd |-> Level(<<<<"name", Value("top")>>, <<"version", Value("1.0")>>>>
                                     \o run.entry),
                   profile_name |-> DEFAULT_PROFILE,
                   additional_args |-> additional_args]
    /\ output = NoCall

\* configuration.rs 231-235
LoadRun ==
    /\ input.fn = "run"
    /\ output = NoCall
    /\ output' = [fn |-> "run", step |-> "loaded", run |-> load_run(input.lsd)]
    /\ UNCHANGED <<now, fsvars, dependencies, profiles, stack, op, result, hist, input>>

\* configuration.rs 650-667: the command and the arguments that are spawned.
SpawnRun ==
    /\ output.fn = "run"
    /\ output.step = "loaded"
    /\ output.run.fn = "Ok"
    /\ output' = [fn |-> "run", step |-> "spawned", run |-> output.run,
                  command |-> run_command(output.run, input.profile_name, TopProfile),
                  args |-> run_arguments(output.run, input.profile_name, TopProfile)
                               \o [k \in DOMAIN input.additional_args |->
                                      Flag(input.additional_args[k])]]
    /\ UNCHANGED <<now, fsvars, dependencies, profiles, stack, op, result, hist, input>>

NextRun ==
    \/ LoadRun
    \/ SpawnRun

SpecRun == InitRun /\ [][NextRun]_vars


\* ------------------------------------------------ nested configurations
\* Project directories and their build++.lsd files: no file at all, a file
\* without a name, or a file that has name and version; a file of either
\* kind has a dependency table of local-build entries, given by their paths.
LoadDirs == {"p", "q"}

ROOT == "p"

MaxReferences == 2

\* The depth of nested calls the stack of the process has room for.
MaxLoadDepth == 3

References == UNION {[1..n -> LoadDirs] : n \in 0..MaxReferences}

ConfigurationFiles ==
    {[form |-> "none", paths |-> <<>>]}
        \cup [form : {"noname", "named"}, paths : References]

LoadFrame(dir) == [dir |-> dir, pc |-> "open", i |-> 1, errors |-> FALSE]

\* The paths whose configurations are never loaded while the dependency is
\* parsed.
loaded_paths_lazily(file) ==
    <<>>

\* local_build.rs 75-84: try_parse loads the configuration at `path` for
\* every local-build entry that dependency::parse_all goes through.
loaded_paths(file) ==
    file.paths

InitNested ==
    /\ now = 0
    /\ cfgfile = [p \in Projects |-> File(0)]
    /\ src = [p \in Projects |-> FilesAt({<<"api", "h">>}, 0)]
    /\ target = [p \in Projects |-> Absent]
    /\ pair = [include |-> FilesAt({}, 0), lib |-> FilesAt({}, 0)]
    /\ dependencies = <<>>
    /\ cache = [a \in Aliases |-> Absent]
    /\ profiles = [p \in Projects |-> [n \in {DEFAULT_PROFILE} |-> MsvcDefault]]
    /\ stack = <<>>
    /\ op = "idle"
    /\ result = NoResult
    /\ hist = [spawned |-> {}, recached |-> {}, cached |-> {}, failed |-> {}, edits |-> 0,
               last |-> NoArgs, repeat |-> FALSE,
               touched |-> [p \in Projects |-> "no"], del |-> NoDel]
    /\ \E files \in [LoadDirs -> ConfigurationFiles] :
          input = [fn |-> "load_nested", files |-> files]
    /\ output = [fn |-> "load_nested", frames |-> <<LoadFrame(ROOT)>>, res |-> "none"]

Loading == output.res = "none" /\ output.frames # <<>>

LoadTop == output.frames[Len(output.frames)]

LoadAt(pc) == Loading /\ LoadTop.pc = pc

\* The innermost Configuration::load returns res: to the subcommand, or to
\* try_parse (local_build.rs 84), whose error parse_all pushes to its list
\* before it goes on with the next entry (dependency/mod.rs 48-53).
LoadReturns(res) ==
    LET n == Len(output.frames)
    IN  IF n = 1
        THEN output' = [output EXCEPT !.frames = <<>>, !.res = res]
        ELSE output' = [output EXCEPT !.frames =
                           [SubSeq(output.frames, 1, n - 1) EXCEPT
                               ![n - 1].i = @ + 1,
                               ![n - 1].errors = @ \/ res # "Ok"]]

\* configuration.rs 186-212: open and parse the file, take name and version.
LoadHeader ==
    /\ LoadAt("open")
    /\ LET file == input.files[LoadTop.dir]
       IN  IF file.form = "none" THEN LoadReturns("CouldNotOpenConfiguration")
           ELSE IF file.form = "noname" THEN LoadReturns("MissingProjectName")
           ELSE output' = [output EXCEPT !.frames[Len(output.frames)].pc = "dependency"]
    /\ UNCHANGED <<now, fsvars, dependencies, profiles, stack, op, result, hist, input>>

AtReference ==
    /\ LoadAt("dependency")
    /\ LoadTop.i <= Len(loaded_paths(input.files[LoadTop.dir]))

\* dependency/mod.rs 48-49 with local_build.rs 75-84: the next entry of the
\* dependency table is parsed, which calls Configuration::load on its path.
LoadNested ==
    /\ AtReference
    /\ Len(output.frames) < MaxLoadDepth
    /\ output' = [output EXCEPT !.frames =
                      Append(@, LoadFrame(loaded_paths(input.files[LoadTop.dir])[LoadTop.i]))]
    /\ UNCHANGED <<now, fsvars, dependencies, profiles, stack, op, result, hist, input>>

\* The same call when the nested calls have used up the stack: the process
\* is ended and no load returns.
LoadOverflow ==
    /\ AtReference
    /\ Len(output.frames) = MaxLoadDepth
    /\ output' = [output EXCEPT !.res = "overflow"]
    /\ UNCHANGED <<now, fsvars, dependencies, profiles, stack, op, result, hist, input>>

\* dependency/mod.rs 55-58 and configuration.rs 214-235: the table is
\* through; profiles and run of these files load.
LoadDone ==
    /\ LoadAt("dependency")
    /\ LoadTop.i > Len(loaded_paths(input.files[LoadTop.dir]))
    /\ LoadReturns(IF LoadTop.errors THEN "DependenciesErrors" ELSE "Ok")
    /\ UNCHANGED <<now, fsvars, dependencies, profiles, stack, op, result, hist, input>>

NextNested ==
    \/ LoadHeader
    \/ LoadNested
    \/ LoadOverflow
    \/ LoadDone

\* The process is single-threaded and runs on: a call in progress takes
\* its next step.
SpecNested == InitNested /\ [][NextNested]_vars /\ WF_vars(NextNested)


\* ------------------------------------------------------------ properties
HasMain(p) == HasSrcFile(p, "Binary", Profiles(p)[DEFAULT_PROFILE])

HasLib(p) == HasSrcFile(p, "Library", Profiles(p)[DEFAULT_PROFILE])

\* The disambiguation table as the claim states it; "fails" stands for a
\* failure whose kind the claim leaves open.
BuildTypeTable(requested, has_main, has_lib) ==
    IF ~has_main /\ ~has_lib THEN "CouldNotDetectSourceFile"
    ELSE IF requested = "Binary" THEN (IF has_main THEN "Binary" ELSE "fails")
    ELSE IF requested = "Library" THEN (IF has_lib THEN "Library" ELSE "fails")
    ELSE IF has_main /\ has_lib THEN "BuildTypeNeedsToBeSpecified"
    ELSE IF has_main THEN "Binary"
    ELSE "Library"

\* The error kind a build failure surfaces with, seen through the CacheError
\* wrapping of a nested build.
FailureKind(res, depth) == IF depth = 1 THEN res.kind ELSE res.inner

DetectStep ==
    /\ At("start")
    /\ stack' # stack
    /\ Top.profile \in DOMAIN Profiles(Top.proj)

\* C1: the detection step of build resolves the build type from the requested
\* type and the existence of src/main<suffix> and src/lib<suffix> exactly as
\* the table says: it continues with the table's type, fails with the table's
\* error, and fails (never builds the other type) when the source file of the
\* requested type is missing.
C1_BuildTypeResolution ==
    [][DetectStep =>
        LET expected == BuildTypeTable(Top.build_type, HasMain(Top.proj), HasLib(Top.proj))
        IN  IF expected \in BuildTypes
            THEN /\ Len(stack') = Len(stack)
                 /\ stack'[Len(stack)].pc = "deps"
                 /\ stack'[Len(stack)].build_type = expected
            ELSE /\ stack' = <<>>
                 /\ op' = "idle"
                 /\ IF expected = "fails"
                    THEN result'.kind # "Ok"
                    ELSE FailureKind(result', Len(stack)) = expected]_vars

\* A Binary was requested of a project that only has src/lib.cpp, and the
\* build failed.
C1_Witness ==
    /\ op = "idle"
    /\ result.kind = "CouldNotDetectSourceFile"
    /\ HasLib("top")
    /\ ~HasMain("top")


\* The last subcommand was a build that returned success and nothing was
\* edited since, or run is past its successful build.
BuildSucceeded == op = "running" \/ (op = "idle" /\ hist.last # NoArgs)

TargetDir(p, n) == Entry(target[p], n)

CacheDir(alias, n) == Entry(cache[alias], n)

\* C2: a build that repeats the previous, successful build with nothing
\* edited in between spawns no compiler, recaches no dependency and returns
\* success.
C2_Idempotence ==
    hist.repeat =>
        /\ op = "build" => hist.spawned = {} /\ hist.recached = {}
        /\ op = "idle" => result.kind = "Ok"

GateOf(p) == AtGate /\ Top.proj = p

\* C3 as stated: once a file under src/ was touched after a successful build,
\* the freshness gate of the next build does not short-circuit, whatever the
\* mtime the touch gave the file.
C3_StalenessAnyTouch ==
    (GateOf("top") /\ hist.touched["top"] # "no") => ~Fresh(Top)

\* C3 amended: once a file under src/ was touched after a successful build
\* and got an mtime strictly greater than every mtime under target/<V>/<P>,
\* the freshness gate of the next build does not short-circuit: a build that
\* gets past the caching of its dependencies goes on to prepare the target
\* and spawn the compiler.
C3_StalenessLaterTouch ==
    (GateOf("top") /\ hist.touched["top"] = "later") => ~Fresh(Top)

\* The compiler of the top project runs in the build that follows a later
\* touch of its sources.
C3_Witness ==
    /\ At("compiling")
    /\ Top.proj = "top"
    /\ hist.touched["top"] = "later"

DependencyRecache(flags) ==
    /\ (AtDependency /\ CurrentDep = "nested" /\ hist.touched["nested"] \in flags)
           => ~MaySkip(CurrentDep, Top.profile)
    /\ (GateOf("nested") /\ hist.touched["nested"] \in flags) => ~Fresh(Top)
    /\ (GateOf("top") /\ "nested" \in hist.recached) => ~Fresh(Top)
    /\ (GateOf("top") /\ "nested" \in hist.recached) =>
           /\ Names(TargetDir("nested", INCLUDE)) \subseteq Names(CacheDir("nested", INCLUDE))
           /\ Names(TargetDir("nested", ARTIFACT)) \subseteq Names(CacheDir("nested", LIB))

\* C4 as stated: once a source file of the local-build dependency was touched
\* after a successful parent build, the next parent build does not skip the
\* dependency, the nested Library build does not short-circuit, its target is
\* copied into the parent's cache and the parent's freshness gate does not
\* short-circuit either, whatever the mtime the touch gave the file.
C4_RecacheAnyTouch == DependencyRecache({"same", "later"})

\* C4 amended: the same, for a touch whose mtime is strictly greater than
\* every mtime under the dependency's cache directory and the nested target
\* directory; the parent's gate is reached when the nested build succeeds.
C4_RecacheLaterTouch == DependencyRecache({"later"})

\* The parent's compiler runs after the touched dependency was rebuilt and
\* recached.
C4_Witness ==
    /\ At("compiling")
    /\ Top.proj = "top"
    /\ hist.touched["nested"] = "later"
    /\ "nested" \in hist.recached
    /\ "nested" \in hist.spawned

Prepared(d) ==
    /\ is_dir(d)
    /\ Names(d) = {ARTIFACT, INCLUDE}
    /\ \A n \in Names(d) : is_dir(d.e[n]) /\ Names(d.e[n]) = {}

\* C5: in a build that spawns the compiler, every dependency's cache
\* include/ and lib/ exist and its cache() has completed before the spawn;
\* the target is wiped and re-created (artifact/ and include/ empty) at the
\* spawn; nothing is staged into target include/ before the compiler has
\* exited, and staging runs only after exit code 0.
C5_Ordering ==
    \A k \in DOMAIN stack :
        LET f == stack[k]
        IN  /\ f.pc \in {"spawn", "compiling", "waited", "stage"} =>
                  \A j \in DOMAIN Deps(f.proj) :
                      /\ is_dir(CacheDir(Deps(f.proj)[j], INCLUDE))
                      /\ is_dir(CacheDir(Deps(f.proj)[j], LIB))
                      /\ Deps(f.proj)[j] \in hist.cached
            /\ f.pc = "spawn" => Prepared(target[f.proj])
            /\ f.pc \in {"spawn", "compiling", "waited", "stage"} =>
                  Names(TargetDir(f.proj, INCLUDE)) = {}
            /\ f.pc = "stage" => f.status = [killed |-> FALSE, code |-> 0]

\* C6: whenever run is past its build and has spawned the run command (the
\* configured command, which need not be the artifact itself), the Binary
\* artifact exists in target/<V>/<P>/artifact and is at least as new as the
\* configuration file and every file under src/.
C6_RunFreshBinary ==
    op = "running" =>
        LET artifact == Entry(TargetDir("top", ARTIFACT),
                              target_artifact_file("top", "Binary", TopProfile))
        IN  /\ is_file(artifact)
            /\ artifact.m >= cfgfile["top"].m
            /\ \A n \in FileNames(src["top"]) : artifact.m >= src["top"].e[n].m

FailedExitStep ==
    /\ At("waited")
    /\ stack' # stack
    /\ Top.status.killed \/ Top.status.code # 0

\* C7: when the compiler child exited with a non-zero code c the build
\* returns CompilerFailedExitCode(c), when it was killed the build returns
\* CompilerKilled; the build returns at once, so no staging step runs and
\* the filesystem is left as the compiler left it.
C7_CompilerFailure ==
    [][FailedExitStep =>
        /\ stack' = <<>>
        /\ op' = "idle"
        /\ IF Top.status.killed
           THEN FailureKind(result', Len(stack)) = "CompilerKilled"
           ELSE /\ FailureKind(result', Len(stack)) = "CompilerFailedExitCode"
                /\ result'.code = Top.status.code
        /\ UNCHANGED fsvars]_vars

\* A build has failed with CompilerFailedExitCode(2) and staged nothing.
C7_Witness ==
    /\ op = "idle"
    /\ result.kind = "CompilerFailedExitCode"
    /\ result.code = 2
    /\ Names(TargetDir("top", INCLUDE)) = {}

\* C8: after a build that returned success, target include/ holds every file
\* of src/ with a header extension and every file of every dependency's
\* cache include/.
C8_HeadersStaged ==
    BuildSucceeded =>
        /\ \A n \in FileNames(src["top"]) :
              Extension(n) \in HeaderExtensions => is_file(Entry(TargetDir("top", INCLUDE), n))
        /\ \A j \in DOMAIN dependencies :
              \A n \in FileNames(CacheDir(dependencies[j], INCLUDE)) :
                  is_file(Entry(TargetDir("top", INCLUDE), n))

\* C9: after a build that returned success, no file with extension obj is in
\* target artifact/.
C9_NoObjectFiles ==
    BuildSucceeded =>
        \A n \in Names(TargetDir("top", ARTIFACT)) : Extension(n) # "obj"

\* What a dependency supplies: the two directories of a local-pair, the
\* target include/ and artifact/ of a local-build.
Supplied(alias, n) ==
    IF DepKind(alias) = "local_pair"
    THEN (IF n = INCLUDE THEN pair.include ELSE pair.lib)
    ELSE TargetDir(alias, IF n = INCLUDE THEN INCLUDE ELSE ARTIFACT)

\* C10: once a dependency was (re)cached by the build in progress, its cache
\* include/ and lib/ hold exactly the files the dependency supplies.
C10_CacheIdentical ==
    (Len(stack) = 1 /\ Top.pc \notin {"caching", "copy"}) =>
        \A a \in hist.recached :
            /\ Names(CacheDir(a, INCLUDE)) = Names(Supplied(a, INCLUDE))
            /\ Names(CacheDir(a, LIB)) = Names(Supplied(a, LIB))


\* The build in progress repeats the successful build that preceded the
\* deletion of target/ or cache/.
AfterDeletion == op = "build" /\ hist.del.state = "building"

CacheShape == UNION {Paths(cache[a], <<<<a>>>>) : a \in Aliases}

\* C11: when target/ or cache/ (or both) were deleted after a successful
\* build and the same build is run again on unchanged sources, every
\* dependency whose cache directory is missing is recached, the freshness
\* gate does not short-circuit (the compiler is spawned), and a build that
\* returns success leaves target/<V>/<P> and cache/ with the contents they
\* had before the deletion.
C11_SafeToDelete ==
    /\ (AfterDeletion /\ Len(stack) = 1 /\ AtDependency /\ ~is_dir(cache[CurrentDep]))
           => ~MaySkip(CurrentDep, Top.profile)
    /\ (AfterDeletion /\ GateOf("top")) => ~Fresh(Top)
    /\ (op = "idle" /\ hist.del.state = "built") =>
           /\ result.kind = "Ok"
           /\ Shape(target["top"]) = hist.del.target
           /\ CacheShape = hist.del.cache


\* The frames whose compiler child is alive: spawned and not yet waited for.
Compiling == {k \in DOMAIN stack : stack[k].pc = "compiling"}

\* C12: at most one compiler child is alive; a build that is not the
\* innermost one is blocked inside Dependency::cache of its current
\* dependency; a build prepares its target and spawns its compiler only
\* after its dependency loop has ended; and the loop moves from one
\* dependency to the next one in declaration order, only when no nested
\* build is in progress.
C12_SerialBuild ==
    /\ [](/\ Cardinality(Compiling) <= 1
          /\ \A k \in DOMAIN stack :
                /\ k < Len(stack) => stack[k].pc = "caching"
                /\ stack[k].pc \in {"caching", "copy"} => stack[k].i <= Len(Deps(stack[k].proj))
                /\ stack[k].pc \in {"spawn", "compiling", "waited", "stage"}
                      => stack[k].i = Len(Deps(stack[k].proj)) + 1)
    /\ [][\A k \in DOMAIN stack \cap DOMAIN stack' :
              \/ stack'[k].i = stack[k].i
              \/ /\ stack'[k].i = stack[k].i + 1
                 /\ k = Len(stack)
                 /\ Len(stack') = Len(stack)]_vars

\* The compiler of the top project runs after the nested project's compiler
\* ran and exited within the same build.
C12_Witness ==
    /\ At("compiling")
    /\ Top.proj = "top"
    /\ "nested" \in hist.spawned
    /\ "nested" \in hist.cached


\* The innermost build in progress is a Library build with a profile of
\* library type Static.
StaticLibraryBuild ==
    /\ Running
    /\ Top.pc # "start"
    /\ compiler_arguments_panics(FrameProfile(Top), Top.build_type)

\* The innermost build in progress returns success.
ReturnsOk ==
    IF Len(stack) = 1
    THEN stack' = <<>> /\ result'.kind = "Ok"
    ELSE Len(stack') = Len(stack) - 1 /\ stack'[Len(stack')].pc = "copy"

\* C13: a Library build with a profile of library type Static, msvc or nvcc,
\* never has its compiler spawned and never returns success.
C13_StaticIsHardError ==
    /\ [](StaticLibraryBuild => Top.pc \notin {"compiling", "waited", "stage"})
    /\ [][StaticLibraryBuild => ~ReturnsOk]_vars


\* compiler_arguments returned the argument vector of an msvc profile.
MsvcArgs == output # NoCall /\ output.fn = "Ok" /\ TopProfile.backend = "msvc"

\* The library files in the cache lib directory of the k-th dependency.
LibrariesOf(k) == {n \in Names(Entry(cache[dependencies[k]], LIB)) : IsLibrary(n)}

\* The number of library files of the first k dependencies.
RECURSIVE LibrariesBefore(_)
LibrariesBefore(k) ==
    IF k = 0 THEN 0 ELSE LibrariesBefore(k - 1) + Cardinality(LibrariesOf(k))

DepIncludeDir(k) ==
    cache_dep_include_dir(dependencies[k], current_version(dependencies[k]),
                          current_profile(dependencies[k], input.selected_profile))

DepLibDir(k) ==
    cache_dep_lib_dir(dependencies[k], current_version(dependencies[k]),
                      current_profile(dependencies[k], input.selected_profile))

\* C14: the msvc argument vector is /openmp, /O<level> and /std:<std> (each
\* if set, in this order), then /I and the cache include directory of each
\* dependency in declaration order, then the source file path, then the bare
\* names of the lib|a|exp files of each dependency's cache lib directory,
\* then /link, then /OUT:<target artifact file> exactly once, then /DLL for
\* a Library, then /LIBPATH:<lib dir> of each dependency; nothing else.
C14_MsvcOrder ==
    MsvcArgs =>
        LET a == output.args
            n == Len(dependencies)
            options == (IF TopProfile.toggle THEN <<Flag("/openmp")>> ELSE <<>>)
                       \o (IF TopProfile.optimize # None
                           THEN <<Tok("/O{}", TopProfile.optimize, <<>>)>> ELSE <<>>)
                       \o (IF TopProfile.standard # None
                           THEN <<Tok("/std:{}", TopProfile.standard, <<>>)>> ELSE <<>>)
            first_i == Len(options)
            source == first_i + 2 * n + 1
            link == source + LibrariesBefore(n) + 1
            dll == IF input.build_type = "Library" THEN 1 ELSE 0
        IN  /\ Len(a) = link + 1 + dll + n
            /\ SubSeq(a, 1, first_i) = options
            /\ \A k \in 1..n :
                  /\ a[first_i + 2 * k - 1] = Flag("/I")
                  /\ a[first_i + 2 * k] = PathArg(DepIncludeDir(k))
            /\ a[source] = PathArg(src_path(input.build_type, TopProfile))
            /\ \A k \in 1..n :
                  {a[j] : j \in (source + LibrariesBefore(k - 1) + 1)..(source + LibrariesBefore(k))}
                      = {PathArg(<<f>>) : f \in LibrariesOf(k)}
            /\ a[link] = Flag("/link")
            /\ a[link + 1] = Tok("/OUT:{}", "",
                                 target_artifact_path("top", input.build_type,
                                                      input.selected_profile, TopProfile))
            /\ Cardinality({j \in DOMAIN a : a[j].format = "/OUT:{}"}) = 1
            /\ dll = 1 => a[link + 2] = Flag("/DLL")
            /\ dll = 0 => \A j \in DOMAIN a : a[j] # Flag("/DLL")
            /\ \A k \in 1..n : a[link + 1 + dll + k] = Tok("/LIBPATH:{}", "", DepLibDir(k))
            /\ \A j \in DOMAIN a :
                  a[j].format \in {"/OUT:{}", "/DLL", "/LIBPATH:{}"} => j > link

\* The argument vector of a Library with every option set, two dependencies
\* and a library file in each cache lib directory.
C14_Witness ==
    /\ MsvcArgs
    /\ input.build_type = "Library"
    /\ TopProfile.toggle /\ TopProfile.optimize # None /\ TopProfile.standard # None
    /\ Len(dependencies) = 2
    /\ \A k \in 1..2 : LibrariesOf(k) # {}


\* C15: in the msvc argument vector no argument appears twice.
C15_NoDuplicateArgument ==
    MsvcArgs =>
        \A i, j \in DOMAIN output.args : i # j => output.args[i] # output.args[j]


\* compiler_arguments returned the argument vector of an nvcc profile.
NvccArgs == output # NoCall /\ output.fn = "Ok" /\ TopProfile.backend = "nvcc"

\* C16: every nvcc argument vector ends with --output-file, the target
\* artifact path and the source file path, in this order; and it holds
\* --shared if and only if the build type is Library and the library type
\* is Shared.
C16_NvccOrder ==
    NvccArgs =>
        LET a == output.args
            n == Len(a)
        IN  /\ n >= 3
            /\ a[n] = PathArg(src_path(input.build_type, TopProfile))
            /\ a[n - 1] = PathArg(target_artifact_path("top", input.build_type,
                                                       input.selected_profile, TopProfile))
            /\ a[n - 2] = Flag("--output-file")
            /\ (\E j \in DOMAIN a : a[j] = Flag("--shared"))
                   <=> (input.build_type = "Library" /\ TopProfile.library_type = "Shared")

\* The argument vector of a Shared Library with two dependencies.
C16_Witness ==
    /\ NvccArgs
    /\ input.build_type = "Library"
    /\ Len(dependencies) = 2
    /\ \E j \in DOMAIN output.args : output.args[j] = Flag("--shared")

\* The keys each backend's apply reads, and the profile option each sets.
OptionKeys(backend) ==
    {"compiler_path", "standard", "optimize", IF backend = "msvc" THEN "openmp" ELSE "dopt",
     "library"}

OptionOf(key) ==
    CASE key = "compiler_path" -> "compiler_path"
      [] key = "standard" -> "standard"
      [] key = "optimize" -> "optimize"
      [] key \in {"openmp", "dopt"} -> "toggle"
      [] key = "library" -> "library_type"

\* What an overlay says an option is: the value written in the configuration,
\* read as the backend reads it.
Written(backend, key, s) ==
    CASE key = "compiler_path" -> s
      [] key = "standard" -> IF backend = "msvc" THEN msvc_standard_from_str(s).value
                             ELSE nvcc_standard_from_str(s).value
      [] key = "optimize" -> IF backend = "msvc" THEN msvc_optimize_from_str(s).value
                             ELSE nvcc_optimize_from_str(s).value
      [] key \in {"openmp", "dopt"} -> bool_from_str(s).value
      [] key = "library" -> library_type_from_str(s).value

Inherited == output.fn = "inherit_with" /\ output.res.fn = "Ok"

\* C17: Profile::inherit_with, for msvc and nvcc, replaces exactly the
\* options present on the overlay and leaves every other option equal to the
\* inherited profile's; an overlay with none of the recognised options gives
\* a profile with the same compiler command and the same argument vector for
\* every build type; applying the same overlay a second time gives the same
\* profile as applying it once; the inherited profile is not modified.
C17_InheritFrame ==
    /\ Inherited =>
          LET backend == output.first.backend
              level == input.level
              res == output.res.profile
          IN  /\ res.backend = backend
              /\ \A key \in OptionKeys(backend) :
                    res[OptionOf(key)] =
                        IF key \in Keys(level)
                        THEN Written(backend, key, Get(level, key).value)
                        ELSE output.first[OptionOf(key)]
              /\ Keys(level) \cap OptionKeys(backend) = {} =>
                    /\ compiler_command(res) = compiler_command(output.first)
                    /\ \A build_type \in BuildTypes, selected_profile \in ProfileNames :
                          \A listing \in [Aliases -> UNION {Listings(Entry(cache[a], LIB)) : a \in Aliases}] :
                              compiler_arguments(res, dependencies, build_type,
                                                 selected_profile, listing)
                                  = compiler_arguments(output.first, dependencies, build_type,
                                                       selected_profile, listing)
              /\ output.times = 2 => res = output.first
    /\ output.fn = "inherit_with" /\ output.times = 1 => TopProfile = output.first

\* An overlay that changes the standard and has no library type was applied
\* twice to a profile of a Static library.
C17_Witness ==
    /\ Inherited
    /\ output.times = 2
    /\ "standard" \in Keys(input.level)
    /\ "library" \notin Keys(input.level)
    /\ output.res.profile.standard # TopProfile.standard
    /\ TopProfile.library_type = "Static"

\* Entry k of the table is a level whose inherit is the value x.
Inherits(k, x) ==
    LET entry == input.level.entries[k][2]
    IN  /\ entry.kind = "level"
        /\ "inherit" \in Keys(entry)
        /\ Get(entry, "inherit") = Value(x)

\* x names an entry declared before entry k that parsed without error.
DeclaredBefore(k, x) ==
    \E j \in 1..(k - 1) :
        /\ input.level.entries[j][1] = x
        /\ output.outcome[j].fn = "Ok"

InheritNames == {"a", "b", "c", "zz"}

\* C18: in profile::parse_all an entry with `inherit X` is accepted only if
\* X names a profile declared earlier in the table that parsed without
\* error; otherwise (X declared later, the entry's own name, undeclared, or
\* failed to parse) the entry yields InheritingFromNonExistentProfile(X) and
\* the load fails with ProfilesErrors.
C18_InheritEarlier ==
    output.fn = "parse_all" =>
        \A k \in DOMAIN output.outcome, x \in InheritNames :
            Inherits(k, x) =>
                /\ output.outcome[k].fn = "Ok" => DeclaredBefore(k, x)
                /\ ~DeclaredBefore(k, x) =>
                      /\ output.outcome[k]
                             = ProfileError("InheritingFromNonExistentProfile", x)
                      /\ \E e \in DOMAIN output.errors : output.errors[e] = output.outcome[k]
                      /\ output.res \in {"none", "ProfilesErrors"}
                      /\ input.level.entries[k][1] \notin DOMAIN output.profiles

\* A table was parsed in which one entry inherits from an earlier profile
\* and one from a profile declared after it.
C18_Witness ==
    /\ output.fn = "parse_all"
    /\ output.res = "ProfilesErrors"
    /\ \E k \in DOMAIN output.outcome :
          Inherits(k, "a") /\ output.outcome[k].fn = "Ok"
    /\ \E k \in DOMAIN output.outcome :
          Inherits(k, "c") /\ k < 3

\* The file declares some alias twice in its dependency table.
DeclaresAliasTwice ==
    \E j, k \in DOMAIN input.decls : j < k /\ input.decls[j][1] = input.decls[k][1]

Loaded == output.fn = "load" /\ output.step = "done"

\* C19: dependency aliases are unique: a configuration that declares the
\* same alias twice in the dependency table makes Configuration::load fail
\* with a parse error; load never returns a Configuration in which two
\* declarations of one alias were merged into a single dependency.
C19_DuplicateAliasFails ==
    Loaded /\ DeclaresAliasTwice => output.res.fn = "Err"

\* The explicit nesting k1 { k2 { ... kn VALUE } } of a line with the dotted
\* key k1.k2. ... .kn, from part i on.
RECURSIVE NestLine(_, _, _)
NestLine(key, i, value) ==
    IF i = Len(key) THEN <<<<key[i]>>, value>>
    ELSE <<<<key[i]>>, Level(<<NestLine(key, i + 1, value)>>)>>

\* The written level in which every dotted key is nested explicitly.
RECURSIVE Nested(_)
Nested(lines) ==
    [k \in DOMAIN lines |->
        NestLine(lines[k][1], 1,
                 IF lines[k][2].kind = "value" THEN lines[k][2]
                 ELSE Level(Nested(lines[k][2].entries)))]

\* C20: for every dotted key k1.k2. ... .kn with n >= 2, n = 3 included, the
\* parser gives the same tree as for the explicit nesting
\* k1 { k2 { ... kn VALUE } }: the value is found at the path k1/k2/.../kn
\* and the enclosing level gets no key other than k1.
C20_DottedKeyIsNesting ==
    output.fn = "parse" =>
        /\ output.res = parse(Nested(input.lines))
        /\ Len(input.lines) = 1 /\ output.res.fn = "Ok" =>
              /\ get_inner(output.res.level, input.lines[1][1]).some
              /\ Keys(output.res.level) = {input.lines[1][1][1]}

\* The run entry as the configuration has it.
RunEntry == get_inner(input.lsd, <<"run">>).value

\* C21: when run is written as a level, not as a [ ] list, command is
\* required: a run level with no command key, the empty level run { }
\* included, makes the load fail with MissingCommandInRun; arguments may be
\* absent, and then the argument list is empty.
C21_CommandRequired ==
    output.fn = "run" /\ input.written = "level" =>
        /\ "command" \notin Keys(RunEntry) =>
              output.run = RunLoadError("MissingCommandInRun")
        /\ "arguments" \notin Keys(RunEntry) /\ output.run.fn = "Ok" =>
              output.run.arguments = <<>>

\* The path of the Binary artifact of the selected profile.
BinaryArtifact == target_artifact_path("top", "Binary", input.profile_name, TopProfile)

Spawned == output.fn = "run" /\ output.step = "spawned"

\* C22: Configuration::run spawns the command obtained by replacing every
\* {} of the run spec's command with the path of the Binary artifact of the
\* selected profile, and passes the spec's arguments in declared order with
\* the same replacement applied to each, followed by the caller's additional
\* arguments in their order; with no run spec the command is the Binary
\* artifact path and the arguments are the additional ones only.
C22_RunCommandLine ==
    Spawned =>
        LET run == output.run
            n == IF run.some THEN Len(run.arguments) ELSE 0
            add == input.additional_args
        IN  /\ output.command =
                   IF ~run.some THEN PathArg(BinaryArtifact)
                   ELSE IF HasPlaceholder(run.command)
                   THEN Tok(run.command, "", BinaryArtifact)
                   ELSE Flag(run.command)
            /\ Len(output.args) = n + Len(add)
            /\ \A k \in 1..n :
                  output.args[k] = IF HasPlaceholder(run.arguments[k])
                                   THEN Tok(run.arguments[k], "", BinaryArtifact)
                                   ELSE Flag(run.arguments[k])
            /\ \A k \in 1..Len(add) : output.args[n + k] = Flag(add[k])

\* A run spec whose second argument has a {} was spawned with two additional
\* arguments.
C22_Witness ==
    /\ Spawned
    /\ output.run.some
    /\ Len(output.run.arguments) = 2
    /\ HasPlaceholder(output.run.arguments[2])
    /\ Len(input.additional_args) = 2
    /\ output.args[2].path = BinaryArtifact

\* The step of the dependency loop that leaves dependency CurrentDep alone.
SkipStep ==
    /\ stack' = SetTop([Top EXCEPT !.i = @ + 1])
    /\ cache' = cache
    /\ hist'.recached = hist.recached

\* The step that makes the cache directories of CurrentDep and invokes its
\* cache(): the copy of a local pair, which completes within the step, or the
\* build of the nested project as a Library, which the step starts.
CacheStep ==
    /\ is_dir(cache'[CurrentDep])
    /\ {INCLUDE, LIB} \subseteq Names(cache'[CurrentDep])
    /\ hist'.recached = hist.recached \cup {CurrentDep}
    /\ \/ stack' = SetTop([Top EXCEPT !.i = @ + 1, !.any_recached = TRUE])
       \/ /\ Len(stack') = Len(stack) + 1
          /\ stack'[Len(stack')] = NewFrame(CurrentDep, "Library",
                                            current_profile(CurrentDep, Top.profile))
          /\ stack'[Len(stack)] = [Top EXCEPT !.pc = "caching"]

\* C23: in the dependency loop of build each dependency is visited in
\* declaration order and is skipped if and only if its cache directory
\* exists and needs_recaching returns false; otherwise the cache directory
\* with its include/ and lib/ is created, cache() is invoked and
\* any_recached becomes true; a cache directory that does not exist is cached
\* whatever needs_recaching would say.
C23_DependencyLoop ==
    [][/\ AtDependency /\ stack' # stack =>
            IF /\ is_dir(cache[CurrentDep])
               /\ ~needs_recaching(CurrentDep, current_profile(CurrentDep, Top.profile),
                                   cache[CurrentDep])
            THEN SkipStep
            ELSE CacheStep
       /\ At("copy") /\ stack' # stack =>
            stack' = SetTop([Top EXCEPT !.pc = "deps", !.i = @ + 1, !.any_recached = TRUE])
      ]_vars

\* A build has skipped both dependencies, which an earlier build cached.
C23_Witness ==
    /\ AtGate
    /\ Top.proj = "top"
    /\ Len(Deps("top")) = 2
    /\ ~Top.any_recached
    /\ hist.cached = {"nested", "pair"}
    /\ hist.recached = {}

\* The build is about to check the cache directory of the local-build
\* dependency, which exists.
ChecksNested ==
    /\ AtDependency
    /\ CurrentDep = "nested"
    /\ is_dir(cache["nested"])

\* The greatest mtime of x and of everything below it.
Newest(x) == MaxOf(Stamps(x))

\* C24: for a local-build dependency needs_recaching(cache_dir) is true if
\* and only if the nested project's target_dir(selected_profile) does not
\* exist, or the recursive maximum mtime of cache_dir is strictly less than
\* the maximum of the recursive mtimes of the nested project's configuration
\* file, src directory and target_dir(selected_profile); equal mtimes do not
\* trigger a recache.
C24_NeedsRecaching ==
    ChecksNested =>
        LET selected_profile == current_profile("nested", Top.profile)
            nested_target == IF selected_profile = DEFAULT_PROFILE THEN target["nested"]
                             ELSE Absent
        IN  needs_recaching("nested", selected_profile, cache["nested"])
                <=> \/ ~is_dir(nested_target)
                    \/ \E t \in Stamps(cfgfile["nested"]) \cup Stamps(src["nested"])
                                    \cup Stamps(nested_target) :
                           Newest(cache["nested"]) < t

\* The cache directory is exactly as new as the newest of the nested
\* configuration file, sources and target, and is not recached.
C24_Witness ==
    /\ ChecksNested
    /\ is_dir(target["nested"])
    /\ Newest(cache["nested"])
           = MaxOf({Newest(cfgfile["nested"]), Newest(src["nested"]), Newest(target["nested"])})
    /\ Newest(src["nested"]) > 0
    /\ MaySkip("nested", Top.profile)

\* What two declarations of one key come to, the earlier with the value
\* earlier and the later with the value later, both nested explicitly: the
\* collision they make, or "" when they merge.
RECURSIVE Collision(_, _)
Collision(earlier, later) ==
    IF later.kind = "value" THEN "KeyCollisionValueAlreadyExists"
    ELSE IF earlier.kind = "value" THEN "KeyCollisionValueWhenShouldBeLevel"
    ELSE LET shared == {<<j, k>> \in (DOMAIN earlier.entries) \X (DOMAIN later.entries) :
                            /\ earlier.entries[j][1] = later.entries[k][1]
                            /\ Collision(earlier.entries[j][2], later.entries[k][2]) # ""}
         IN  IF shared = {} THEN ""
             ELSE LET first == CHOOSE jk \in shared : \A o \in shared : jk[2] <= o[2]
                  IN  Collision(earlier.entries[first[1]][2], later.entries[first[2]][2])

\* The file declares the same key of the top level on two lines.
DeclaresKeyTwice ==
    /\ output.fn = "parse"
    /\ Len(input.lines) = 2
    /\ input.lines[1][1][1] = input.lines[2][1][1]

\* C25: two declarations of the same key in one level: level + level merges
\* recursively and keeps the children of both; a scalar declared for a key
\* that already exists, as value or level, fails with
\* KeyCollisionValueAlreadyExists; a level, or the expansion of a dotted key,
\* declared for a key that already holds a scalar fails with
\* KeyCollisionValueWhenShouldBeLevel.
C25_MergeCollisions ==
    DeclaresKeyTwice =>
        LET nested == Nested(input.lines)
            collision == Collision(nested[1][2], nested[2][2])
        IN  IF collision # ""
            THEN output.res.fn = "Err" /\ output.res.error = collision
            ELSE /\ output.res.fn = "Ok"
                 /\ \A k \in 1..2 :
                       LET found == get_inner(output.res.level, input.lines[k][1])
                       IN  /\ found.some
                           /\ input.lines[k][2].kind = "value" =>
                                 found.value = input.lines[k][2]

\* The build of the local-build dependency, started by Dependency::cache,
\* ends because its compiler failed.
NestedFails ==
    /\ Len(stack) = 2
    /\ Top.pc = "waited"
    /\ ExitResult(Top.status).kind # "Ok"
    /\ stack' # stack

\* The outermost build is in its dependency loop.
InDependencyLoop ==
    /\ Running
    /\ \/ stack[1].pc \in {"caching", "copy"}
       \/ stack[1].pc = "deps" /\ stack[1].i <= Len(dependencies)

AtGateAfterFailure ==
    /\ AtGate
    /\ Top.proj \in hist.failed

\* C27: if a build fails because its compiler run exited non-zero or was
\* killed, the next build of the same profile spawns the compiler again;
\* build never returns success for a profile whose most recent compiler run
\* failed.
C27_RetryAfterFailure ==
    [][AtGateAfterFailure /\ stack' # stack =>
          /\ Running'
          /\ Len(stack') = Len(stack)
          /\ stack'[Len(stack')].pc = "spawn"]_vars

\* The subcommand build(Some(T), P) returns success.
TypedBuildReturnsOk ==
    /\ op = "build"
    /\ Len(stack) = 1
    /\ hist.last.build_type \in BuildTypes
    /\ stack' = <<>>
    /\ result'.kind = "Ok"

\* C28: whenever build(Some(T), P) returns success, target/<V>/<P>/artifact
\* contains the artifact file named for type T, also when both src/main and
\* src/lib exist and the previous successful build of P was for the other
\* build type. Stated for the builds that do not follow a failed compiler
\* run of the project.
C28_ArtifactOfRequestedType ==
    [][TypedBuildReturnsOk /\ "top" \notin hist.failed =>
          target_artifact_file("top", hist.last.build_type, FrameProfile(Top))
              \in FileNames(Entry(target'["top"], ARTIFACT))]_vars

DetectionErrors == {"InvalidProfile", "BuildTypeNeedsToBeSpecified", "CouldNotDetectSourceFile"}

\* The subcommand's build has not got past the detection of its profile and
\* build type.
Detecting == Len(stack) = 1 /\ Top.pc = "start"

\* C29: a build that fails with InvalidProfile, BuildTypeNeedsToBeSpecified
\* or CouldNotDetectSourceFile leaves the filesystem unchanged: no cache or
\* target directory is created or removed, no dependency is cached, no
\* nested build is started and no compiler is spawned.
C29_DetectionFrame ==
    [][/\ result' # result /\ result'.kind \in DetectionErrors =>
             /\ Detecting
             /\ stack' = <<>>
             /\ hist.recached = {}
             /\ hist.spawned = {}
       /\ Detecting => UNCHANGED fsvars]_vars

\* A build has failed for want of a build type, in a project that has a
\* target directory and cached dependencies from an earlier build.
C29_Witness ==
    /\ op = "idle"
    /\ result.kind = "BuildTypeNeedsToBeSpecified"
    /\ is_dir(target["top"])
    /\ is_dir(cache["nested"])

\* The directories that the configuration of dir names as local-build paths:
\* all that its file writes, or only those of a file that has its name and
\* version.
Referenced(dir, named_only) ==
    LET file == input.files[dir]
    IN  IF named_only /\ file.form # "named" THEN {}
        ELSE {file.paths[k] : k \in DOMAIN file.paths}

\* The directories reached from those in S along at least one and at most n
\* further references.
RECURSIVE ReachedFrom(_, _, _)
ReachedFrom(S, named_only, n) ==
    LET next == UNION {Referenced(dir, named_only) : dir \in S}
    IN  IF n = 0 THEN {} ELSE next \cup ReachedFrom(next, named_only, n - 1)

Reachable(named_only) ==
    {ROOT} \cup ReachedFrom({ROOT}, named_only, Cardinality(LoadDirs))

Acyclic(named_only) ==
    \A dir \in Reachable(named_only) :
        dir \notin ReachedFrom({dir}, named_only, Cardinality(LoadDirs))

LoadReturned == output.fn = "load_nested" /\ output.res \notin {"none", "overflow"}

\* C30 as stated: Configuration::load returns, a Configuration or a
\* LoadError, if and only if the local-build path references reachable from
\* the project are acyclic; with a cycle of references, a project that names
\* itself included, load never returns.
C30_ReturnsIffAcyclic ==
    /\ [](LoadReturned => Acyclic(FALSE))
    /\ Acyclic(FALSE) ~> LoadReturned

\* C30, amended: Configuration::load returns if and only if there is no
\* cycle among the references it follows, which are those of the
\* configuration files that open, parse and have name and version; the
\* references of a file that fails before its dependency table is parsed are
\* not followed, and a cycle through such a file ends with a LoadError.
C30_ReturnsIffNoFollowedCycle ==
    /\ [](LoadReturned => Acyclic(TRUE))
    /\ Acyclic(TRUE) ~> LoadReturned

\* The stack is used up by the loads of a cycle of named configurations.
C30_Witness ==
    /\ output.fn = "load_nested"
    /\ output.res = "overflow"
    /\ ~Acyclic(TRUE)
    /\ input.files[ROOT].paths = <<"q">>
    /\ input.files["q"].paths = <<"q", "p">>

====
